---------------------------- MODULE Spec2Model ----------------------------
(***************************************************************************)
(* sjis2utf8: bulk conversion of CP932 / UTF-8 files to UTF-8 with BOM,    *)
(* with backup, manifest and restore.                                      *)
(*                                                                         *)
(* A byte is a number 0..255, a file's content a sequence of bytes, a text *)
(* a sequence of code points.  A file name is a sequence of characters, a  *)
(* path the sequence of the names from the filesystem root.                *)
(***************************************************************************)
EXTENDS Integers, Sequences, FiniteSets, TLC

(***************************************************************************)
(* models.py: Encoding, FileStatus                                         *)
(***************************************************************************)
Encoding == {"utf-8-bom", "utf-8", "cp932", "utf-16-le", "utf-16-be", "binary", "unknown"}

FileStatus == {"converted", "skipped", "error", "warning"}

(***************************************************************************)
(* detector.py                                                             *)
(***************************************************************************)
UTF8_BOM == <<239, 187, 191>>

UTF16_LE_BOM == <<255, 254>>

UTF16_BE_BOM == <<254, 255>>

\* bytes.startswith
StartsWith(data, prefix) ==
    /\ Len(data) >= Len(prefix)
    /\ SubSeq(data, 1, Len(prefix)) = prefix

\* b"\x00" in data
HasNul(data) == \E i \in 1..Len(data) : data[i] = 0

DecodeFail == [ok |-> FALSE, text |-> <<>>]

IsCont(b) == b >= 128 /\ b <= 191

\* the byte at position i of data, or -1 past its end
ByteAt(data, i) == IF i <= Len(data) THEN data[i] ELSE -1

\* Length of the well-formed UTF-8 sequence that starts at data[i]; 0 when the
\* strict decoder rejects it (overlong forms, surrogates and code points above
\* U+10FFFF included).
Utf8SeqLen(data, i) ==
    LET b0 == data[i]
        b1 == ByteAt(data, i + 1)
        b2 == ByteAt(data, i + 2)
        b3 == ByteAt(data, i + 3)
    IN  IF b0 < 128 THEN 1
        ELSE IF b0 >= 194 /\ b0 <= 223
             THEN IF IsCont(b1) THEN 2 ELSE 0
        ELSE IF b0 >= 224 /\ b0 <= 239
             THEN IF /\ IsCont(b1)
                     /\ IsCont(b2)
                     /\ (b0 = 224 => b1 >= 160)
                     /\ (b0 = 237 => b1 <= 159)
                  THEN 3 ELSE 0
        ELSE IF b0 >= 240 /\ b0 <= 244
             THEN IF /\ IsCont(b1)
                     /\ IsCont(b2)
                     /\ IsCont(b3)
                     /\ (b0 = 240 => b1 >= 144)
                     /\ (b0 = 244 => b1 <= 143)
                  THEN 4 ELSE 0
        ELSE 0

\* The code point of the well-formed sequence of n bytes at data[i].
Utf8CodePoint(data, i, n) ==
    IF n = 1 THEN data[i]
    ELSE IF n = 2 THEN (data[i] - 192) * 64 + (data[i + 1] - 128)
    ELSE IF n = 3 THEN (data[i] - 224) * 4096 + (data[i + 1] - 128) * 64
                       + (data[i + 2] - 128)
    ELSE (data[i] - 240) * 262144 + (data[i + 1] - 128) * 4096
         + (data[i + 2] - 128) * 64 + (data[i + 3] - 128)

RECURSIVE Utf8DecodeFrom(_, _)
Utf8DecodeFrom(data, i) ==
    IF i > Len(data) THEN [ok |-> TRUE, text |-> <<>>]
    ELSE LET n == Utf8SeqLen(data, i)
         IN  IF n = 0 THEN DecodeFail
             ELSE LET rest == Utf8DecodeFrom(data, i + n)
                  IN  IF rest.ok
                      THEN [ok |-> TRUE,
                            text |-> <<Utf8CodePoint(data, i, n)>> \o rest.text]
                      ELSE DecodeFail

\* data.decode("utf-8", errors="strict")
Utf8Decode(data) == Utf8DecodeFrom(data, 1)

\* The cp932 codec's single-byte rows: ASCII, 0x80, 0xA0, half-width katakana
\* 0xA1..0xDF, and 0xFD..0xFF, each with its code point.
Cp932Single(b) ==
    IF b <= 128 THEN b
    ELSE IF b = 160 THEN 63728
    ELSE IF b >= 161 /\ b <= 223 THEN 65216 + b
    ELSE IF b >= 253 THEN 63729 + (b - 253)
    ELSE -1

\* The cp932 codec's double-byte rows, for the lead and trail bytes the model's
\* buffers are built from (lead 0x81, 0x82, 0xE3); every other pair of those
\* bytes is unassigned and the strict decoder rejects it.
Cp932Double(lead, trail) ==
    IF lead = 129 THEN
        CASE trail = 65 -> 12289 [] trail = 129 -> 65309 [] trail = 130 -> 8800
          [] trail = 160 -> 9633 [] trail = 187 -> 8839 [] trail = 191 -> 8745
          [] trail = 227 -> 8730 [] OTHER -> -1
    ELSE IF lead = 130 THEN
        CASE trail = 129 -> 65345 [] trail = 130 -> 65346 [] trail = 160 -> 12354
          [] trail = 187 -> 12381 [] trail = 191 -> 12385 [] trail = 227 -> 12421
          [] trail = 239 -> 12433 [] OTHER -> -1
    ELSE IF lead = 227 THEN
        CASE trail = 65 -> 32028 [] trail = 129 -> 32314 [] trail = 130 -> 32359
          [] trail = 160 -> 32588 [] trail = 187 -> 32697 [] trail = 191 -> 35697
          [] trail = 227 -> 32893 [] trail = 239 -> 32997 [] OTHER -> -1
    ELSE -1

RECURSIVE Cp932DecodeFrom(_, _)
Cp932DecodeFrom(data, i) ==
    IF i > Len(data) THEN [ok |-> TRUE, text |-> <<>>]
    ELSE LET single == Cp932Single(data[i])
             double == Cp932Double(data[i], ByteAt(data, i + 1))
             n      == IF single >= 0 THEN 1 ELSE IF double >= 0 THEN 2 ELSE 0
         IN  IF n = 0 THEN DecodeFail
             ELSE LET rest == Cp932DecodeFrom(data, i + n)
                  IN  IF rest.ok
                      THEN [ok |-> TRUE,
                            text |-> <<IF n = 1 THEN single ELSE double>> \o rest.text]
                      ELSE DecodeFail

\* data.decode("cp932", errors="strict")
Cp932Decode(data) == Cp932DecodeFrom(data, 1)

\* detect_encoding_from_bytes looking for a NUL byte before it looks for a
\* BOM: the variant C15 is checked against.
DetectNulBeforeBom(data) ==
    IF HasNul(data) THEN "binary"
    ELSE IF StartsWith(data, UTF8_BOM) THEN "utf-8-bom"
    ELSE IF StartsWith(data, UTF16_LE_BOM) THEN "utf-16-le"
    ELSE IF StartsWith(data, UTF16_BE_BOM) THEN "utf-16-be"
    ELSE IF Len(data) = 0 THEN "utf-8"
    ELSE IF Utf8Decode(data).ok THEN "utf-8"
    ELSE IF Cp932Decode(data).ok THEN "cp932"
    ELSE "unknown"

detect_encoding_from_bytes(data) ==
    IF StartsWith(data, UTF8_BOM) THEN "utf-8-bom"
    ELSE IF StartsWith(data, UTF16_LE_BOM) THEN "utf-16-le"
    ELSE IF StartsWith(data, UTF16_BE_BOM) THEN "utf-16-be"
    ELSE IF Len(data) = 0 THEN "utf-8"
    ELSE IF HasNul(data) THEN "binary"
    ELSE IF Utf8Decode(data).ok THEN "utf-8"
    ELSE IF Cp932Decode(data).ok THEN "cp932"
    ELSE "unknown"

\* should_convert taking UTF-8 without BOM whatever the flag says: the variant
\* C14 is checked against.
ShouldConvertIgnoringFlag(encoding, include_utf8_no_bom) ==
    encoding = "cp932" \/ encoding = "utf-8"

should_convert(encoding, include_utf8_no_bom) ==
    \/ encoding = "cp932"
    \/ (include_utf8_no_bom /\ encoding = "utf-8")

is_warning_encoding(encoding) ==
    encoding \in {"utf-16-le", "utf-16-be", "binary", "unknown"}

(***************************************************************************)
(* converter.py: the pure part                                             *)
(***************************************************************************)
\* The decode of read_file_content, by detected encoding; ok is FALSE where the
\* code raises (UnicodeDecodeError, or ValueError for the other encodings).
DecodeAs(data, encoding) ==
    IF encoding = "utf-8-bom" THEN Utf8Decode(SubSeq(data, 4, Len(data)))
    ELSE IF encoding = "cp932" THEN Cp932Decode(data)
    ELSE IF encoding = "utf-8" THEN Utf8Decode(data)
    ELSE DecodeFail

\* One code point as UTF-8 (str.encode("utf-8")).
Utf8EncodeChar(c) ==
    IF c < 128 THEN <<c>>
    ELSE IF c < 2048 THEN <<192 + (c \div 64), 128 + (c % 64)>>
    ELSE IF c < 65536
         THEN <<224 + (c \div 4096), 128 + ((c \div 64) % 64), 128 + (c % 64)>>
    ELSE <<240 + (c \div 262144), 128 + ((c \div 4096) % 64),
           128 + ((c \div 64) % 64), 128 + (c % 64)>>

RECURSIVE Utf8Encode(_)
Utf8Encode(text) ==
    IF text = <<>> THEN <<>>
    ELSE Utf8EncodeChar(Head(text)) \o Utf8Encode(Tail(text))

\* convert_to_utf8_bom leaving the BOM out: the variant C16 is checked against.
ConvertWithoutBom(text) == Utf8Encode(text)

convert_to_utf8_bom(text) == UTF8_BOM \o Utf8Encode(text)

(***************************************************************************)
(* Names and paths                                                         *)
(***************************************************************************)
Slash == "/"

\* The name that stands for the filesystem root at the head of an absolute path
\* string ("/etc/passwd").
RootName == <<Slash>>

DotDot == <<".", ".">>

Dot == <<".">>

Name_t == <<"t">>

Name_bk == <<"b", "k">>

Name_backup == <<"b", "a", "c", "k", "u", "p">>

Name_etc == <<"e", "t", "c">>

Name_passwd == <<"p", "a", "s", "s", "w", "d">>

Name_a_cs == <<"a", ".", "c", "s">>

Name_b_cs == <<"b", ".", "c", "s">>

Name_obj == <<"o", "b", "j">>

Name_bin == <<"b", "i", "n">>

Name_src == <<"s", "r", "c">>

Name_gen == <<"g", "e", "n">>

Name_sub == <<"s", "u", "b">>

\* a file name with a backslash in it
Name_a_bs_b_cs == <<"a", "\\", "b", ".", "c", "s">>

Name_A_CS == <<"A", ".", "C", "S">>

Name_dot_cs == <<".", "c", "s">>

Name_b_txt == <<"b", ".", "t", "x", "t">>

Name_manifest == <<"m", "a", "n", "i", "f", "e", "s", "t", ".", "j", "s", "o", "n">>

Digits == <<"1", "2", "3", "4", "5">>

Parent(path) == SubSeq(path, 1, Len(path) - 1)

BaseName(path) == path[Len(path)]

IsPrefix(root, path) ==
    /\ Len(root) <= Len(path)
    /\ SubSeq(path, 1, Len(root)) = root

\* path.relative_to(root), for a path under root
RelativeTo(path, root) == SubSeq(path, Len(root) + 1, Len(path))

\* All the directories a path lies in, the root directory <<>> left out.
Ancestors(path) == {SubSeq(path, 1, k) : k \in 1..(Len(path) - 1)}

\* Path(root) / rel: an absolute rel replaces root.
JoinPath(root, rel) ==
    IF rel # <<>> /\ rel[1] = RootName THEN Tail(rel) ELSE root \o rel

\* Path.resolve() on a filesystem without symbolic links: "." is dropped and
\* ".." steps to the parent, the root being its own parent.
RECURSIVE ResolveFrom(_, _)
ResolveFrom(acc, rest) ==
    IF rest = <<>> THEN acc
    ELSE IF Head(rest) = Dot THEN ResolveFrom(acc, Tail(rest))
    ELSE IF Head(rest) = DotDot
         THEN ResolveFrom(IF acc = <<>> THEN acc ELSE Parent(acc), Tail(rest))
    ELSE ResolveFrom(Append(acc, Head(rest)), Tail(rest))

Resolve(path) == ResolveFrom(<<>>, path)

\* str(relative).replace("\\", "/"): the names joined by "/"
RECURSIVE PathStr(_)
PathStr(rel) ==
    IF rel = <<>> THEN <<>>
    ELSE IF Len(rel) = 1 THEN rel[1]
    ELSE rel[1] \o <<Slash>> \o PathStr(Tail(rel))

(***************************************************************************)
(* scanner.py                                                              *)
(***************************************************************************)
UpperChars == <<"A", "B", "C", "D", "E", "F", "G", "H", "I", "J", "K", "L", "M",
                "N", "O", "P", "Q", "R", "S", "T", "U", "V", "W", "X", "Y", "Z">>

LowerChars == <<"a", "b", "c", "d", "e", "f", "g", "h", "i", "j", "k", "l", "m",
                "n", "o", "p", "q", "r", "s", "t", "u", "v", "w", "x", "y", "z">>

LowerChar(c) ==
    IF \E i \in 1..26 : UpperChars[i] = c
    THEN LowerChars[CHOOSE i \in 1..26 : UpperChars[i] = c]
    ELSE c

\* str.lower()
Lower(s) == [i \in 1..Len(s) |-> LowerChar(s[i])]

\* str.rfind("."), 1-based; 0 when there is none
LastDot(name) ==
    IF \E i \in 1..Len(name) : name[i] = "."
    THEN CHOOSE i \in 1..Len(name) :
            /\ name[i] = "."
            /\ \A j \in (i + 1)..Len(name) : name[j] # "."
    ELSE 0

\* PurePath.suffix: from the last dot, unless the name starts or ends with it
Suffix(name) ==
    LET i == LastDot(name)
    IN  IF i > 1 /\ i < Len(name) THEN SubSeq(name, i, Len(name)) ELSE <<>>

\* fnmatch.fnmatch on a POSIX system (case-sensitive), for patterns of
\* literals, "*" and "?".
RECURSIVE FnmatchFrom(_, _, _, _)
FnmatchFrom(s, i, pat, j) ==
    IF j > Len(pat) THEN i > Len(s)
    ELSE IF pat[j] = "*"
         THEN \/ FnmatchFrom(s, i, pat, j + 1)
              \/ (i <= Len(s) /\ FnmatchFrom(s, i + 1, pat, j))
    ELSE IF i > Len(s) THEN FALSE
    ELSE IF pat[j] = "?" \/ pat[j] = s[i] THEN FnmatchFrom(s, i + 1, pat, j + 1)
    ELSE FALSE

fnmatch(s, pat) == FnmatchFrom(s, 1, pat, 1)

EndsWithSlash(pattern) == pattern # <<>> /\ pattern[Len(pattern)] = Slash

\* str.rstrip("/")
RECURSIVE RStripSlash(_)
RStripSlash(pattern) ==
    IF EndsWithSlash(pattern) THEN RStripSlash(Parent(pattern)) ELSE pattern

DEFAULT_EXCLUDE_PATTERNS ==
    << <<"L", "i", "b", "r", "a", "r", "y", "/">>,
       <<"T", "e", "m", "p", "/">>,
       <<"o", "b", "j", "/">>,
       <<"b", "i", "n", "/">>,
       <<".", "g", "i", "t", "/">>,
       <<".", "v", "s", "/">> >>

should_exclude_dir(dir_name, patterns) ==
    \E k \in 1..Len(patterns) :
        /\ EndsWithSlash(patterns[k])
        /\ fnmatch(dir_name, RStripSlash(patterns[k]))

\* matches_file_exclude_pattern testing the file name alone, not the relative
\* path: the variant C24 is checked against.
MatchesFileNameOnly(file_path, base_path, patterns) ==
    /\ IsPrefix(base_path, file_path)
    /\ \E k \in 1..Len(patterns) :
           /\ ~EndsWithSlash(patterns[k])
           /\ fnmatch(BaseName(file_path), patterns[k])

matches_file_exclude_pattern(file_path, base_path, patterns) ==
    /\ IsPrefix(base_path, file_path)
    /\ LET relative == RelativeTo(file_path, base_path)
       IN  \E k \in 1..Len(patterns) :
               /\ ~EndsWithSlash(patterns[k])
               /\ \/ fnmatch(BaseName(relative), patterns[k])
                  \/ fnmatch(PathStr(relative), patterns[k])

\* The extension allow-list as scan_files normalises it.
NormExtensions(extensions) ==
    {IF extensions[k] # <<>> /\ extensions[k][1] = "."
     THEN Lower(extensions[k])
     ELSE <<".">> \o Lower(extensions[k]) : k \in 1..Len(extensions)}

\* Whether scan_files yields a file it found while listing a directory.
ScanYields(file_path, config) ==
    /\ Lower(Suffix(BaseName(file_path))) \in NormExtensions(config.extensions)
    /\ ~matches_file_exclude_pattern(file_path, Resolve(config.target_path),
                                     DEFAULT_EXCLUDE_PATTERNS \o config.exclude_patterns)

\* scan_files filtering dirs[:] with the user's patterns only: the variant C18
\* is checked against.
ScanDescendsUserOnly(dir_path, config) ==
    ~should_exclude_dir(BaseName(dir_path), config.exclude_patterns)

\* Whether scan_files keeps a subdirectory in dirs[:], to be walked later.
ScanDescends(dir_path, config) ==
    ~should_exclude_dir(BaseName(dir_path),
                        DEFAULT_EXCLUDE_PATTERNS \o config.exclude_patterns)

(***************************************************************************)
(* Path strings, as the manifest stores them                               *)
(***************************************************************************)
RECURSIVE SplitFrom(_, _, _)
SplitFrom(s, i, name) ==
    LET done == IF name = <<>> THEN <<>> ELSE <<name>>
    IN  IF i > Len(s) THEN done
        ELSE IF s[i] = Slash THEN done \o SplitFrom(s, i + 1, <<>>)
        ELSE SplitFrom(s, i + 1, Append(name, s[i]))

IsNotDot(name) == name # Dot

\* Path(s): the names of a path string; empty names and "." are dropped, ".."
\* is kept, and a leading "/" makes the path absolute.
ParsePath(s) ==
    LET parts == SelectSeq(SplitFrom(s, 1, <<>>), IsNotDot)
    IN  IF s # <<>> /\ s[1] = Slash THEN <<RootName>> \o parts ELSE parts

\* str(path) of an absolute path
AbsPathStr(path) == <<Slash>> \o PathStr(path)

(***************************************************************************)
(* Bounds and the files of the model                                       *)
(***************************************************************************)
\* conversion runs in one session
MaxRuns == 2

\* restores in one session
MaxRestores == 1

\* adverse events in one session: I/O failures, crashes, edits of a manifest
MaxFaults == 1

\* The longest path the filesystem takes, in names (PATH_MAX): a call on a
\* longer one fails with ENAMETOOLONG.
PathMax == 7

\* "あ" in CP932
SampleCp932 == <<130, 160>>

\* "あ" in UTF-8 without BOM
SampleUtf8 == <<227, 129, 130>>

\* "A" in UTF-8 with BOM
SampleUtf8Bom == <<239, 187, 191, 65>>

\* "A" in UTF-16 LE with BOM
SampleUtf16 == <<255, 254, 65, 0>>

Samples == {SampleCp932, SampleUtf8, SampleUtf8Bom, SampleUtf16}

\* bytes after the BOM, if any, of the one file of SpecDetect
MaxTailLen == 3
MaxTicks == 2        \* seconds the clock advances while ids are generated
MaxIds == 3          \* run ids generated in one history
MaxNameLen == 2      \* characters of a file name in a manifest

\* NUL, "A", CP932 lead and trail bytes, UTF-8 lead and continuation bytes, and
\* first bytes of the BOMs
TailBytes == {0, 65, 129, 130, 160, 187, 227, 239, 255}

Tails == UNION {[1..k -> TailBytes] : k \in 0..MaxTailLen}

Buffers == {bom \o tail : bom \in {<<>>, UTF8_BOM, UTF16_LE_BOM, UTF16_BE_BOM},
                          tail \in Tails}

TargetRoot == <<Name_t>>

FileA == TargetRoot \o <<Name_a_cs>>

FileB == TargetRoot \o <<Name_b_cs>>

\* a file of the target root that is named manifest.json
FileManifest == TargetRoot \o <<Name_manifest>>

EtcPasswd == <<Name_etc, Name_passwd>>

\* the backup root beside the target root, and inside it (./backup with the
\* target as the current directory)
BackupOutside == <<Name_bk>>

BackupInside == TargetRoot \o <<Name_backup>>

\* the exceptions an I/O call raises
IOErrors == {"PermissionError", "FileNotFoundError", "OSError"}

NoFault == "none"

(***************************************************************************)
(* State                                                                   *)
(***************************************************************************)
VARIABLES
    fs,              \* file path -> bytes
    dirs,            \* the directories that exist
    manifests,       \* manifest.json path -> the dict stored in it
    backup_dir,      \* --backup-dir of the session
    pc,              \* where the process is
    config,          \* ConversionConfig of the run
    run_id,          \* run id of the run
    walk_stack,      \* os.walk: directories still to list
    pending,         \* files of the listed directory not yet yielded
    cur,             \* convert_file: the file in hand
    converted_files, \* run_conversion: ConvertedFileInfo list
    summary,         \* ConversionSummary
    results,         \* the FileResult of each file, in loop order
    interrupted,     \* cli._interrupted
    exit_code,       \* what the process returned, -1 before
    nruns, nrestores, faults,
    restore,         \* the last restore_backup call and what it did
    tampered,        \* a manifest was edited outside the tool
    run_start,       \* the filesystem when the run started
    overwritten,     \* files whose content the run replaced
    prev_run,        \* how the run before this one ended
    last_op,         \* the last operation begun in the session
    now,             \* the wall clock, in seconds
    issued,          \* the run ids generate_run_id returned, oldest first
    mio              \* a RunManifest, the file save_manifest wrote, what load_manifest gave

vars == <<fs, dirs, manifests, backup_dir, pc, config, run_id, walk_stack, pending,
          cur, converted_files, summary, results, interrupted, exit_code, nruns,
          nrestores, faults, restore, tampered, run_start, overwritten, prev_run, last_op,
          now, issued, mio>>

\* the variables of a conversion and restore session
session == <<fs, dirs, manifests, backup_dir, pc, config, run_id, walk_stack, pending,
             cur, converted_files, summary, results, interrupted, exit_code, nruns,
             nrestores, faults, restore, tampered, run_start, overwritten, prev_run,
             last_op>>

\* The session actions below never call the clock-based id generator, and
\* keep their manifests as dicts in the variable manifests.
idvars == <<now, issued, mio>>

Stopped == {"idle", "done", "crashed", "raised"}

Converting == {"backup", "mkstemp", "write", "rename"}

Running == {"scan"} \cup Converting

NoCur == [path |-> <<>>, encoding |-> "", data |-> <<>>, text |-> <<>>, temp |-> <<>>]

NoRestore == [run_id |-> <<>>, outcome |-> "", restored |-> <<>>, reads |-> {},
              writes |-> {}, fs_before |-> <<>>, entries |-> <<>>,
              target_root |-> <<>>, backup_root |-> <<>>, follows_run |-> FALSE,
              exit_code |-> -1]

NoConfig == [target_path |-> <<>>, extensions |-> <<>>, exclude_patterns |-> <<>>,
             include_utf8_no_bom |-> FALSE, assume_cp932 |-> FALSE, strict |-> FALSE,
             execute |-> FALSE, backup_dir |-> <<>>]

NoRun == [config |-> NoConfig, pc |-> "idle", exit_code |-> -1, results |-> {}]

\* no file, and a file whose writing stopped at an exception
NoFile == [state |-> "absent"]

TruncatedFile == [state |-> "truncated"]

NoManifest == [run_id |-> <<>>, timestamp |-> <<>>, target_path |-> <<>>,
               converted_files |-> <<>>,
               config |-> [extensions |-> <<>>, include_utf8_no_bom |-> FALSE,
                           exclude_patterns |-> <<>>]]

\* no save_manifest and no load_manifest call yet
NoManifestIO == [m |-> NoManifest, file |-> NoFile, save |-> "none", load |-> "none",
                 before_save |-> FALSE, loaded |-> NoManifest]

ZeroSummary == [total_files |-> 0, converted |-> 0, skipped |-> 0, warnings |-> 0,
                errors |-> 0]

Init ==
    /\ \E ca \in Samples, cb \in {SampleCp932, SampleUtf8Bom} :
          fs = (FileA :> ca) @@ (FileB :> cb) @@ (EtcPasswd :> <<65>>)
    /\ backup_dir \in {BackupOutside, BackupInside}
    /\ \E made \in BOOLEAN :
          dirs = {TargetRoot, <<Name_etc>>} \cup (IF made THEN {backup_dir} ELSE {})
    /\ manifests = <<>>
    /\ pc = "idle"
    /\ config = NoConfig
    /\ run_id = <<>>
    /\ walk_stack = <<>>
    /\ pending = {}
    /\ cur = NoCur
    /\ converted_files = <<>>
    /\ summary = ZeroSummary
    /\ results = <<>>
    /\ interrupted = FALSE
    /\ exit_code = -1
    /\ nruns = 0
    /\ nrestores = 0
    /\ faults = 0
    /\ restore = NoRestore
    /\ tampered = FALSE
    /\ run_start = [fs |-> <<>>, dirs |-> {}, manifests |-> <<>>]
    /\ overwritten = {}
    /\ prev_run = NoRun
    /\ last_op = "none"
    /\ now = 0
    /\ issued = <<>>
    /\ mio = NoManifestIO

(***************************************************************************)
(* Filesystem helpers                                                      *)
(***************************************************************************)
RemoveFile(f, path) == [q \in (DOMAIN f) \ {path} |-> f[q]]

WriteFile(f, path, data) == (path :> data) @@ f

Prefixes(data) == {SubSeq(data, 1, k) : k \in 0..Len(data)}

ProperPrefixes(data) == {SubSeq(data, 1, k) : k \in 0..(Len(data) - 1)}

\* every order in which a directory listing can give the members of S
Orderings(S) ==
    {o \in [1..Cardinality(S) -> S] : \A i, j \in DOMAIN o : i # j => o[i] # o[j]}

(***************************************************************************)
(* backup.py: run id, backup path, manifest                                *)
(***************************************************************************)
\* generate_run_id: the n-th run id of the session.  Timestamp and uuid are
\* taken to give an id no earlier run has.
generate_run_id(n) == <<"r", Digits[n]>>

\* The characters a run id is made of, in code-point order.
IdChars == <<"0", "1", "2", "3", "4", "5", "6", "7", "8", "9", "_",
             "a", "b", "c", "d", "e", "f">>

Ord(c) == CHOOSE i \in DOMAIN IdChars : IdChars[i] = c

\* str < str, as sorted() compares two run ids
RECURSIVE StrLess(_, _)
StrLess(a, b) ==
    IF a = <<>> THEN b # <<>>
    ELSE IF b = <<>> THEN FALSE
    ELSE IF Head(a) = Head(b) THEN StrLess(Tail(a), Tail(b))
    ELSE Ord(Head(a)) < Ord(Head(b))

TwoDigits(n) == <<IdChars[(n \div 10) + 1], IdChars[(n % 10) + 1]>>

\* The day the clock is read on, as %Y%m%d prints it.
Today == <<"2", "0", "2", "6", "0", "1", "0", "1">>

\* datetime.now().strftime("%Y%m%d_%H%M%S"), t the second of the day
strftime(t) ==
    Today \o <<"_">> \o TwoDigits(t \div 3600) \o TwoDigits((t \div 60) % 60)
          \o TwoDigits(t % 60)

UuidHexLen == 8

\* uuid.uuid4().hex[:8]: outcomes of the random draw
ShortUuids == {[i \in 1..UuidHexLen |-> h] : h \in {"0", "9", "a", "f"}}

\* generate_run_id as it computes the id, from the clock reading and the draw
generate_run_id_at(t, short_uuid) == strftime(t) \o <<"_">> \o short_uuid

\* list_backups: the run ids that have a manifest, sorted(reverse=True)
list_backups(run_ids) ==
    CHOOSE o \in Orderings(run_ids) :
        \A i, j \in DOMAIN o : i < j => StrLess(o[j], o[i])

get_backup_path(file_path, target_root, backup_root, rid) ==
    backup_root \o <<rid>> \o RelativeTo(file_path, target_root)

get_manifest_path(backup_root, rid) == backup_root \o <<rid, Name_manifest>>

\* RunManifest.to_dict
to_dict(m) ==
    [run_id |-> m.run_id,
     timestamp |-> m.timestamp,
     target_path |-> m.target_path,
     converted_files |->
        [k \in 1..Len(m.converted_files) |->
            [relative_path |-> m.converted_files[k].relative_path,
             source_encoding |-> m.converted_files[k].source_encoding,
             backup_path |-> m.converted_files[k].backup_path]],
     config |-> m.config]

\* RunManifest.from_dict
from_dict(d) ==
    [run_id |-> d.run_id,
     timestamp |-> d.timestamp,
     target_path |-> d.target_path,
     converted_files |->
        [k \in 1..Len(d.converted_files) |->
            [relative_path |-> d.converted_files[k].relative_path,
             source_encoding |-> d.converted_files[k].source_encoding,
             backup_path |-> d.converted_files[k].backup_path]],
     config |-> d.config]

(***************************************************************************)
(* backup.py: save_manifest and load_manifest on the text of the file.     *)
(* A str is the sequence of its code points.  The file is the JSON         *)
(* document of to_dict(m): the tree of its objects and arrays, each string *)
(* and boolean leaf being the UTF-8 bytes of its JSON literal.             *)
(***************************************************************************)
HexDigit(n) == IF n < 10 THEN 48 + n ELSE 87 + n

HexVal(c) == IF c >= 48 /\ c <= 57 THEN c - 48
             ELSE IF c >= 97 /\ c <= 102 THEN c - 87
             ELSE IF c >= 65 /\ c <= 70 THEN c - 55
             ELSE -1

\* json.dump(..., ensure_ascii=False): how one character of a str is written
JsonEscapeChar(c) ==
    IF c = 34 THEN <<92, 34>>
    ELSE IF c = 92 THEN <<92, 92>>
    ELSE IF c = 10 THEN <<92, 110>>
    ELSE IF c = 13 THEN <<92, 114>>
    ELSE IF c = 9 THEN <<92, 116>>
    ELSE IF c = 8 THEN <<92, 98>>
    ELSE IF c = 12 THEN <<92, 102>>
    ELSE IF c < 32 THEN <<92, 117, 48, 48, HexDigit(c \div 16), HexDigit(c % 16)>>
    ELSE <<c>>

RECURSIVE JsonEscape(_)
JsonEscape(str) ==
    IF str = <<>> THEN <<>>
    ELSE JsonEscapeChar(Head(str)) \o JsonEscape(Tail(str))

\* the JSON literal of a str
JsonString(str) == <<34>> \o JsonEscape(str) \o <<34>>

\* the JSON literal of a bool: true, false
JsonBool(b) == IF b THEN <<116, 114, 117, 101>> ELSE <<102, 97, 108, 115, 101>>

IsSurrogate(c) == c >= 55296 /\ c <= 57343

\* TextIOWrapper.write with encoding="utf-8": str.encode("utf-8", "strict")
EncodeText(text) ==
    IF \E i \in 1..Len(text) : IsSurrogate(text[i])
    THEN [ok |-> FALSE, data |-> <<>>]
    ELSE [ok |-> TRUE, data |-> Utf8Encode(text)]

\* json.load: the str of the literal t[i..last], last the closing quote
RECURSIVE JsonUnescapeFrom(_, _, _)
JsonUnescapeFrom(t, i, last) ==
    IF i >= last THEN [ok |-> i = last, text |-> <<>>]
    ELSE LET c == t[i]
             e == IF i + 1 < last THEN t[i + 1] ELSE -1
             simple == IF e = 34 THEN 34 ELSE IF e = 92 THEN 92
                       ELSE IF e = 47 THEN 47 ELSE IF e = 110 THEN 10
                       ELSE IF e = 114 THEN 13 ELSE IF e = 116 THEN 9
                       ELSE IF e = 98 THEN 8 ELSE IF e = 102 THEN 12 ELSE -1
             hex == IF e = 117 /\ i + 5 < last
                       /\ \A k \in 2..5 : HexVal(t[i + k]) >= 0
                    THEN HexVal(t[i + 2]) * 4096 + HexVal(t[i + 3]) * 256
                         + HexVal(t[i + 4]) * 16 + HexVal(t[i + 5])
                    ELSE -1
             char == IF c = 92 THEN (IF simple >= 0 THEN simple ELSE hex)
                     ELSE IF c = 34 \/ c < 32 THEN -1 ELSE c
             step == IF c # 92 THEN 1 ELSE IF simple >= 0 THEN 2 ELSE 6
         IN  IF char < 0 THEN DecodeFail
             ELSE LET rest == JsonUnescapeFrom(t, i + step, last)
                  IN  IF rest.ok THEN [ok |-> TRUE, text |-> <<char>> \o rest.text]
                      ELSE DecodeFail

\* json.load of a string literal read from the file
JsonLoadString(data) ==
    LET t == Utf8Decode(data)
    IN  IF ~t.ok \/ Len(t.text) < 2 \/ t.text[1] # 34 \/ t.text[Len(t.text)] # 34
        THEN DecodeFail
        ELSE JsonUnescapeFrom(t.text, 2, Len(t.text))

\* json.load of a boolean literal
JsonLoadBool(data) == data = JsonBool(TRUE)

\* the literals of the document json.dump writes for to_dict(m)
JsonLiterals(d) ==
    [run_id |-> JsonString(d.run_id),
     timestamp |-> JsonString(d.timestamp),
     target_path |-> JsonString(d.target_path),
     converted_files |->
        [k \in 1..Len(d.converted_files) |->
            [relative_path |-> JsonString(d.converted_files[k].relative_path),
             source_encoding |-> JsonString(d.converted_files[k].source_encoding),
             backup_path |-> JsonString(d.converted_files[k].backup_path)]],
     config |->
        [extensions |-> [k \in 1..Len(d.config.extensions) |->
                            JsonString(d.config.extensions[k])],
         include_utf8_no_bom |-> JsonBool(d.config.include_utf8_no_bom),
         exclude_patterns |-> [k \in 1..Len(d.config.exclude_patterns) |->
                                  JsonString(d.config.exclude_patterns[k])]]]

\* every literal of the document, for the test that the text can be encoded
LiteralSet(doc) ==
    {doc.run_id, doc.timestamp, doc.target_path, doc.config.include_utf8_no_bom}
        \cup {doc.converted_files[k].relative_path : k \in DOMAIN doc.converted_files}
        \cup {doc.converted_files[k].source_encoding : k \in DOMAIN doc.converted_files}
        \cup {doc.converted_files[k].backup_path : k \in DOMAIN doc.converted_files}
        \cup {doc.config.extensions[k] : k \in DOMAIN doc.config.extensions}
        \cup {doc.config.exclude_patterns[k] : k \in DOMAIN doc.config.exclude_patterns}

\* the document as bytes of the file
EncodeDocument(doc) ==
    [run_id |-> EncodeText(doc.run_id).data,
     timestamp |-> EncodeText(doc.timestamp).data,
     target_path |-> EncodeText(doc.target_path).data,
     converted_files |->
        [k \in 1..Len(doc.converted_files) |->
            [relative_path |-> EncodeText(doc.converted_files[k].relative_path).data,
             source_encoding |-> EncodeText(doc.converted_files[k].source_encoding).data,
             backup_path |-> EncodeText(doc.converted_files[k].backup_path).data]],
     config |->
        [extensions |-> [k \in 1..Len(doc.config.extensions) |->
                            EncodeText(doc.config.extensions[k]).data],
         include_utf8_no_bom |-> EncodeText(doc.config.include_utf8_no_bom).data,
         exclude_patterns |-> [k \in 1..Len(doc.config.exclude_patterns) |->
                                  EncodeText(doc.config.exclude_patterns[k]).data]]]

\* save_manifest: open("w", encoding="utf-8"), json.dump
save_manifest(m) ==
    LET doc == JsonLiterals(to_dict(m))
    IN  IF \A t \in LiteralSet(doc) : EncodeText(t).ok
        THEN [outcome |-> "ok", file |-> [state |-> "written",
                                          document |-> EncodeDocument(doc)]]
        ELSE [outcome |-> "UnicodeEncodeError", file |-> TruncatedFile]

\* json.load and RunManifest.from_dict on a file that was written in full
LoadDocument(doc) ==
    [run_id |-> JsonLoadString(doc.run_id),
     timestamp |-> JsonLoadString(doc.timestamp),
     target_path |-> JsonLoadString(doc.target_path),
     converted_files |->
        [k \in 1..Len(doc.converted_files) |->
            [relative_path |-> JsonLoadString(doc.converted_files[k].relative_path),
             source_encoding |-> JsonLoadString(doc.converted_files[k].source_encoding),
             backup_path |-> JsonLoadString(doc.converted_files[k].backup_path)]],
     config |->
        [extensions |-> [k \in 1..Len(doc.config.extensions) |->
                            JsonLoadString(doc.config.extensions[k])],
         include_utf8_no_bom |-> JsonLoadBool(doc.config.include_utf8_no_bom),
         exclude_patterns |-> [k \in 1..Len(doc.config.exclude_patterns) |->
                                  JsonLoadString(doc.config.exclude_patterns[k])]]]

LoadedOk(l) ==
    /\ l.run_id.ok /\ l.timestamp.ok /\ l.target_path.ok
    /\ \A k \in DOMAIN l.converted_files :
          /\ l.converted_files[k].relative_path.ok
          /\ l.converted_files[k].source_encoding.ok
          /\ l.converted_files[k].backup_path.ok
    /\ \A k \in DOMAIN l.config.extensions : l.config.extensions[k].ok
    /\ \A k \in DOMAIN l.config.exclude_patterns : l.config.exclude_patterns[k].ok

LoadedManifest(l) ==
    from_dict(
        [run_id |-> l.run_id.text,
         timestamp |-> l.timestamp.text,
         target_path |-> l.target_path.text,
         converted_files |->
            [k \in 1..Len(l.converted_files) |->
                [relative_path |-> l.converted_files[k].relative_path.text,
                 source_encoding |-> l.converted_files[k].source_encoding.text,
                 backup_path |-> l.converted_files[k].backup_path.text]],
         config |->
            [extensions |-> [k \in 1..Len(l.config.extensions) |->
                                l.config.extensions[k].text],
             include_utf8_no_bom |-> l.config.include_utf8_no_bom,
             exclude_patterns |-> [k \in 1..Len(l.config.exclude_patterns) |->
                                      l.config.exclude_patterns[k].text]]])

\* load_manifest: None where the file does not exist
load_manifest(file) ==
    IF file.state = "absent" THEN [outcome |-> "None", manifest |-> NoManifest]
    ELSE IF file.state = "truncated"
    THEN [outcome |-> "JSONDecodeError", manifest |-> NoManifest]
    ELSE LET l == LoadDocument(file.document)
         IN  IF LoadedOk(l) THEN [outcome |-> "ok", manifest |-> LoadedManifest(l)]
             ELSE [outcome |-> "JSONDecodeError", manifest |-> NoManifest]

(***************************************************************************)
(* converter.py: convert_file and update_summary                           *)
(***************************************************************************)
\* update_summary counting an ERROR result as skipped: the variant C22 is
\* checked against.
UpdateSummaryErrorAsSkipped(sm, result) ==
    [total_files |-> sm.total_files + 1,
     converted |-> sm.converted + (IF result.status = "converted" THEN 1 ELSE 0),
     skipped |-> sm.skipped + (IF result.status \in {"skipped", "error"} THEN 1 ELSE 0),
     warnings |-> sm.warnings + (IF result.status = "warning" THEN 1 ELSE 0),
     errors |-> sm.errors]

update_summary(sm, result) ==
    [total_files |-> sm.total_files + 1,
     converted |-> sm.converted + (IF result.status = "converted" THEN 1 ELSE 0),
     skipped |-> sm.skipped + (IF result.status = "skipped" THEN 1 ELSE 0),
     warnings |-> sm.warnings + (IF result.status = "warning" THEN 1 ELSE 0),
     errors |-> sm.errors + (IF result.status = "error" THEN 1 ELSE 0)]

FileResult(path, status, encoding, message) ==
    [path |-> path, status |-> status, source_encoding |-> encoding,
     message |-> message]

\* convert_file with the two named except clauses only and no
\* "except Exception": the variant C8 is checked against.
ExceptClauseNamedOnly(exc) ==
    IF exc = "PermissionError" THEN [caught |-> TRUE, message |-> "Permission denied"]
    ELSE IF exc = "FileNotFoundError" THEN [caught |-> TRUE, message |-> "File not found"]
    ELSE [caught |-> FALSE, message |-> exc]

\* what a run reported: path, FileStatus and detected encoding of each result
Classifications(rs) ==
    {[path |-> rs[i].path, status |-> rs[i].status,
      source_encoding |-> rs[i].source_encoding] : i \in 1..Len(rs)}

\* The except clauses of convert_file: whether the exception is caught, and the
\* message of the ERROR result.
ExceptClause(exc) ==
    IF exc = "PermissionError" THEN [caught |-> TRUE, message |-> "Permission denied"]
    ELSE IF exc = "FileNotFoundError" THEN [caught |-> TRUE, message |-> "File not found"]
    ELSE [caught |-> TRUE, message |-> exc]

\* The body of the loop of run_conversion after convert_file has returned:
\* update_summary, log_result, and the append to converted_files.
LoopBody(result, infos) ==
    /\ summary' = update_summary(summary, result)
    /\ results' = Append(results, result)
    /\ converted_files' = converted_files \o infos
    /\ cur' = NoCur
    /\ pc' = "scan"
    /\ UNCHANGED exit_code

\* convert_file ends on an exception: an ERROR result and no ConvertedFileInfo
\* when an except clause catches it; otherwise it leaves run_conversion.
Raise(path, exc) ==
    IF ExceptClause(exc).caught
    THEN LoopBody(FileResult(path, "error", "", ExceptClause(exc).message), <<>>)
    ELSE /\ pc' = "raised"
         /\ cur' = NoCur
         /\ UNCHANGED <<summary, results, converted_files, exit_code>>

\* convert_file without the should_convert return: the variant C13 is checked
\* against.
DecideWithoutShouldConvert(encoding, cfg) ==
    IF is_warning_encoding(encoding) THEN "warning"
    ELSE IF ~cfg.execute THEN "dryrun"
    ELSE "convert"

\* convert_file without the "if not config.execute" return: the variant C4 is
\* checked against.
DecideWithoutDryRun(encoding, cfg) ==
    IF is_warning_encoding(encoding) THEN "warning"
    ELSE IF ~should_convert(encoding, cfg.include_utf8_no_bom) THEN "skipped"
    ELSE "convert"

\* What convert_file does once the encoding is known, before it touches the
\* file: "warning", "skipped", "dryrun" or "convert".
Decide(encoding, cfg) ==
    IF is_warning_encoding(encoding) THEN "warning"
    ELSE IF ~should_convert(encoding, cfg.include_utf8_no_bom) THEN "skipped"
    ELSE IF ~cfg.execute THEN "dryrun"
    ELSE "convert"

\* mkstemp(dir=file_path.parent, suffix=".tmp"): a name not in use
TempName(k) == <<"t", "m", "p", Digits[k], ".", "t", "m", "p">>

TempPath(file_path) ==
    LET k == CHOOSE n \in 1..Len(Digits) :
                /\ (Parent(file_path) \o <<TempName(n)>>) \notin DOMAIN fs
                /\ \A m \in 1..(n - 1) :
                      (Parent(file_path) \o <<TempName(m)>>) \in DOMAIN fs
    IN  Parent(file_path) \o <<TempName(k)>>

\* atomic_write writing to the file itself instead of the temporary file: the
\* variant C7 is checked against.
WriteInPlace(c) == c.path

\* atomic_write: the path f.write() writes the content to
WritePath(c) == c.temp

\* convert_file going on to atomic_write whatever create_backup did: the
\* variant C1 is checked against.
AfterBackupIgnored(ok) == "mkstemp"

\* convert_file: where the run goes after create_backup returned or raised
AfterBackup(ok) == IF ok THEN "mkstemp" ELSE "error"

(***************************************************************************)
(* cli.py: run_conversion, and convert_file step by step                   *)
(***************************************************************************)
Ext_cs == <<".", "c", "s">>

\* --ext .json
Ext_json == <<".", "j", "s", "o", "n">>

\* main() builds the ConversionConfig and calls run_conversion, which draws the
\* run id and enters the loop over scan_files.  A new process starts with
\* _interrupted False.
StartRunOpts(execute, include, exclude, strict, assume_cp932, extensions) ==
    /\ UNCHANGED idvars
    /\ pc \in Stopped
    /\ nruns < MaxRuns
    /\ nruns' = nruns + 1
    /\ config' = [target_path |-> TargetRoot, extensions |-> extensions,
                  exclude_patterns |-> exclude, include_utf8_no_bom |-> include,
                  assume_cp932 |-> assume_cp932, strict |-> strict,
                  execute |-> execute, backup_dir |-> backup_dir]
    /\ run_id' = generate_run_id(nruns + 1)
    /\ summary' = ZeroSummary
    /\ converted_files' = <<>>
    /\ results' = <<>>
    /\ interrupted' = FALSE
    /\ exit_code' = -1
    /\ walk_stack' = <<Resolve(TargetRoot)>>
    /\ pending' = {}
    /\ cur' = NoCur
    /\ pc' = "scan"
    /\ run_start' = [fs |-> fs, dirs |-> dirs, manifests |-> manifests]
    /\ overwritten' = {}
    /\ prev_run' = [config |-> config, pc |-> pc, exit_code |-> exit_code,
                    results |-> Classifications(results)]
    /\ last_op' = "run"
    /\ UNCHANGED <<fs, dirs, manifests, backup_dir, nrestores, faults, restore,
                   tampered>>

\* a run without --strict and --assume-cp932, with the default --ext
StartRunWith(execute, include, exclude) ==
    StartRunOpts(execute, include, exclude, FALSE, FALSE, <<Ext_cs>>)

\* a run with no --exclude pattern
StartRun(execute, include) == StartRunWith(execute, include, <<>>)

\* scan_files resumed with no file left of the directory in hand: os.walk lists
\* the next directory, at that moment, and keeps the subdirectories that
\* should_exclude_dir lets through.
ScanDir ==
    /\ UNCHANGED idvars
    /\ pc = "scan"
    /\ pending = {}
    /\ walk_stack # <<>>
    /\ LET d == Head(walk_stack)
           subdirs == {q \in dirs : Len(q) = Len(d) + 1 /\ Parent(q) = d
                                    /\ ScanDescends(q, config)}
           files == {f \in (DOMAIN fs) \cup (DOMAIN manifests) :
                        Len(f) = Len(d) + 1 /\ Parent(f) = d /\ ScanYields(f, config)}
       IN  /\ pending' = files
           /\ \E order \in Orderings(subdirs) :
                 walk_stack' = order \o Tail(walk_stack)
    /\ UNCHANGED <<fs, dirs, manifests, backup_dir, pc, config, run_id, cur,
                   converted_files, summary, results, interrupted, exit_code,
                   nruns, nrestores, faults, restore, tampered, run_start,
                   overwritten, prev_run, last_op>>

\* run_conversion without the test of the flag: the variant C11 is checked
\* against.
FlagNeverStops(flag) == FALSE

\* run_conversion: "if _interrupted" at the top of the loop body
FlagStops(flag) == flag

\* One turn of the loop: scan_files yields f, the flag is tested, and
\* convert_file runs up to the point where it starts to change the filesystem.
\* exc is the exception a read of the file raises, if any.
LoopIter(f, exc) ==
    /\ UNCHANGED idvars
    /\ pc = "scan"
    /\ f \in pending
    /\ pending' = pending \ {f}
    /\ exc # NoFault => (~interrupted /\ faults < MaxFaults)
    /\ faults' = IF exc = NoFault THEN faults ELSE faults + 1
    /\ IF FlagStops(interrupted)
       THEN /\ pc' = "done"
            /\ exit_code' = 3
            /\ UNCHANGED <<cur, summary, results, converted_files>>
       ELSE IF exc # NoFault THEN Raise(f, exc)
       ELSE LET encoding == detect_encoding_from_bytes(fs[f])
                what == Decide(encoding, config)
                decoded == DecodeAs(fs[f], encoding)
            IN  IF what = "warning"
                THEN LoopBody(FileResult(f, "warning", encoding, "Skipped"), <<>>)
                ELSE IF what = "skipped"
                THEN LoopBody(FileResult(f, "skipped", encoding, "Already"), <<>>)
                ELSE IF what = "dryrun"
                THEN LoopBody(FileResult(f, "converted", encoding,
                                         "Would convert (dry run)"), <<>>)
                ELSE IF ~decoded.ok THEN Raise(f, "UnicodeDecodeError")
                ELSE /\ cur' = [path |-> f, encoding |-> encoding, data |-> fs[f],
                                text |-> decoded.text, temp |-> <<>>]
                     /\ pc' = "backup"
                     /\ UNCHANGED <<summary, results, converted_files, exit_code>>
    /\ UNCHANGED <<fs, dirs, manifests, backup_dir, config, run_id, walk_stack,
                   interrupted, nruns, nrestores, restore, tampered, run_start,
                   overwritten, prev_run, last_op>>

BackupPathOfCur ==
    get_backup_path(cur.path, Resolve(config.target_path),
                    Resolve(config.backup_dir), run_id)

\* create_backup: mkdir(parents=True) and shutil.copy2.  A failure of mkdir
\* leaves nothing behind (made = FALSE); a failure of the copy leaves the
\* directories and a backup file holding some of the bytes.  A backup path
\* longer than PathMax fails in mkdir.
CreateBackup(exc, made) ==
    /\ UNCHANGED idvars
    /\ pc = "backup"
    /\ exc # NoFault => faults < MaxFaults
    /\ faults' = IF exc = NoFault THEN faults ELSE faults + 1
    /\ exc = NoFault => made
    /\ LET bp == BackupPathOfCur
           toolong == Len(bp) > PathMax
           raised == IF toolong THEN "OSError" ELSE exc
       IN  /\ toolong => exc = NoFault
           /\ dirs' = IF made /\ ~toolong THEN dirs \cup Ancestors(bp) ELSE dirs
           /\ IF toolong THEN fs' = fs
              ELSE IF exc = NoFault
              THEN fs' = WriteFile(fs, bp, fs[cur.path])
              ELSE IF made
              THEN \E part \in ProperPrefixes(fs[cur.path]) :
                      fs' = WriteFile(fs, bp, part)
              ELSE fs' = fs
           /\ IF AfterBackup(raised = NoFault) = "mkstemp"
              THEN /\ pc' = "mkstemp"
                   /\ UNCHANGED <<cur, summary, results, converted_files, exit_code>>
              ELSE Raise(cur.path, raised)
    /\ UNCHANGED <<manifests, backup_dir, config, run_id, walk_stack, pending,
                   interrupted, nruns, nrestores, restore, tampered, run_start,
                   overwritten, prev_run, last_op>>

\* atomic_write: tempfile.mkstemp in the directory of the file
Mkstemp(exc) ==
    /\ UNCHANGED idvars
    /\ pc = "mkstemp"
    /\ exc # NoFault => faults < MaxFaults
    /\ faults' = IF exc = NoFault THEN faults ELSE faults + 1
    /\ IF exc = NoFault
       THEN /\ cur' = [cur EXCEPT !.temp = TempPath(cur.path)]
            /\ fs' = WriteFile(fs, TempPath(cur.path), <<>>)
            /\ pc' = "write"
            /\ UNCHANGED <<summary, results, converted_files, exit_code>>
       ELSE /\ fs' = fs
            /\ Raise(cur.path, exc)
    /\ UNCHANGED <<dirs, manifests, backup_dir, config, run_id, walk_stack, pending,
                   interrupted, nruns, nrestores, restore, tampered, run_start,
                   overwritten, prev_run, last_op>>

\* atomic_write: f.write, f.flush, os.fsync.  On a failure some of the bytes
\* have been written, and the except clause unlinks the temporary file.
WriteTemp(exc) ==
    /\ UNCHANGED idvars
    /\ pc = "write"
    /\ exc # NoFault => faults < MaxFaults
    /\ faults' = IF exc = NoFault THEN faults ELSE faults + 1
    /\ IF exc = NoFault
       THEN /\ fs' = WriteFile(fs, WritePath(cur), convert_to_utf8_bom(cur.text))
            /\ pc' = "rename"
            /\ UNCHANGED <<cur, summary, results, converted_files, exit_code>>
       ELSE /\ \E part \in Prefixes(convert_to_utf8_bom(cur.text)) :
                  fs' = RemoveFile(WriteFile(fs, WritePath(cur), part), cur.temp)
            /\ Raise(cur.path, exc)
    /\ UNCHANGED <<dirs, manifests, backup_dir, config, run_id, walk_stack, pending,
                   interrupted, nruns, nrestores, restore, tampered, run_start,
                   overwritten, prev_run, last_op>>

\* str.replace("\\", "/")
ReplaceBackslash(str) == [i \in 1..Len(str) |-> IF str[i] = "\\" THEN Slash ELSE str[i]]

ConvertedFileInfo(file_path, encoding, backup_path, cfg) ==
    [relative_path |->
        ReplaceBackslash(PathStr(RelativeTo(file_path, Resolve(cfg.target_path)))),
     source_encoding |-> encoding,
     backup_path |->
        ReplaceBackslash(PathStr(RelativeTo(backup_path, Resolve(cfg.backup_dir))))]

\* atomic_write: temp_path.replace(file_path), then the rest of convert_file
\* and of the loop body.  On a failure the except clause unlinks the
\* temporary file.
\* A replacement done by truncating the file and copying into it, which a
\* failure leaves cut off: the variant C26 is checked against.
ReplaceByCopyFailed(f, c) == WriteFile(f, c.path, <<>>)

\* temp_path.replace(file_path) raising: os.replace has renamed nothing
ReplaceFailed(f, c) == f

Rename(exc) ==
    /\ UNCHANGED idvars
    /\ pc = "rename"
    /\ exc # NoFault => faults < MaxFaults
    /\ faults' = IF exc = NoFault THEN faults ELSE faults + 1
    /\ IF exc = NoFault
       THEN /\ fs' = RemoveFile(WriteFile(fs, cur.path, fs[cur.temp]), cur.temp)
            /\ overwritten' = overwritten \cup {cur.path}
            /\ LoopBody(FileResult(cur.path, "converted", cur.encoding,
                                   "Converted successfully"),
                        <<ConvertedFileInfo(cur.path, cur.encoding, BackupPathOfCur,
                                            config)>>)
       ELSE /\ fs' = RemoveFile(ReplaceFailed(fs, cur), cur.temp)
            /\ overwritten' = overwritten
            /\ Raise(cur.path, exc)
    /\ UNCHANGED <<dirs, manifests, backup_dir, config, run_id, walk_stack, pending,
                   interrupted, nruns, nrestores, restore, tampered, run_start,
                   prev_run, last_op>>

\* scan_files is exhausted: log_summary, the manifest (execute mode, at least
\* one ConvertedFileInfo), and the exit code.
Finish ==
    /\ UNCHANGED idvars
    /\ pc = "scan"
    /\ pending = {}
    /\ walk_stack = <<>>
    /\ LET mp == get_manifest_path(config.backup_dir, run_id)
           manifest == [run_id |-> run_id,
                        timestamp |-> nruns,
                        target_path |-> AbsPathStr(Resolve(config.target_path)),
                        converted_files |-> converted_files,
                        config |-> [extensions |-> config.extensions,
                                    include_utf8_no_bom |-> config.include_utf8_no_bom,
                                    exclude_patterns |-> config.exclude_patterns]]
       IN  IF config.execute /\ converted_files # <<>>
           THEN /\ manifests' = (mp :> to_dict(manifest)) @@ manifests
                /\ dirs' = dirs \cup Ancestors(mp)
                /\ fs' = RemoveFile(fs, mp)   \* open("w") replaces what was there
           ELSE UNCHANGED <<manifests, dirs, fs>>
    /\ exit_code' = IF summary.errors > 0 THEN 1 ELSE 0
    /\ pc' = "done"
    /\ UNCHANGED <<backup_dir, config, run_id, walk_stack, pending, cur,
                   converted_files, summary, results, interrupted, nruns, nrestores,
                   faults, restore, tampered, run_start, overwritten, prev_run, last_op>>

\* _signal_handler: SIGINT at any moment of the run
Interrupt ==
    /\ UNCHANGED idvars
    /\ pc \in Running
    /\ ~interrupted
    /\ interrupted' = TRUE
    /\ UNCHANGED <<fs, dirs, manifests, backup_dir, pc, config, run_id, walk_stack,
                   pending, cur, converted_files, summary, results, exit_code, nruns,
                   nrestores, faults, restore, tampered, run_start, overwritten,
                   prev_run, last_op>>

\* The process is killed, or the machine stops, in the middle of convert_file:
\* nothing is cleaned up.  In the middle of f.write() some of the bytes have
\* reached the file.
Crash ==
    /\ UNCHANGED idvars
    /\ pc \in Converting
    /\ faults < MaxFaults
    /\ faults' = faults + 1
    /\ pc' = "crashed"
    /\ IF pc = "write"
       THEN \E part \in Prefixes(convert_to_utf8_bom(cur.text)) :
               fs' = WriteFile(fs, WritePath(cur), part)
       ELSE fs' = fs
    /\ UNCHANGED <<dirs, manifests, backup_dir, config, run_id, walk_stack, pending,
                   cur, converted_files, summary, results, interrupted, exit_code,
                   nruns, nrestores, restore, tampered, run_start, overwritten,
                   prev_run, last_op>>

(***************************************************************************)
(* backup.py: restore_backup; cli.py: run_restore                          *)
(***************************************************************************)
\* Path(s) made absolute; the current directory is the filesystem root.
PathOfStr(s) ==
    LET parts == ParsePath(s)
    IN  IF parts # <<>> /\ parts[1] = RootName THEN Tail(parts) ELSE parts

\* _validate_path_within comparing the paths as written, without resolve(): the
\* variant C5 is checked against.
ValidateUnresolved(path, root) == [ok |-> IsPrefix(root, path), path |-> path]

\* ok is FALSE where the code raises ValueError("Path traversal detected ...")
_validate_path_within(path, root) ==
    LET resolved == Resolve(path)
        root_resolved == Resolve(root)
    IN  [ok |-> IsPrefix(root_resolved, resolved), path |-> resolved]

\* Path.exists(): the operating system follows "." and ".." itself
Exists(f, path) ==
    LET real == Resolve(path)
    IN  real = <<>> \/ real \in DOMAIN f \/ real \in dirs \/ real \in DOMAIN manifests

IsDir(path) == path = <<>> \/ path \in dirs

\* shutil.copy2(src, dst) on the files f: a directory as dst takes the file
\* under the name of src; ok is FALSE where it raises (src is a directory, src
\* and dst are one file, the directory of dst is missing).
copy2(f, src, dst) ==
    LET s == Resolve(src)
        d0 == Resolve(dst)
        d == IF IsDir(d0) THEN d0 \o <<BaseName(s)>> ELSE d0
    IN  IF s \notin DOMAIN f \/ s = d \/ ~IsDir(Parent(d))
        THEN [ok |-> FALSE, fs |-> f, src |-> s, dst |-> d]
        ELSE [ok |-> TRUE, fs |-> WriteFile(f, d, f[s]), src |-> s, dst |-> d]

\* restore_backup undoing its copies before it raises: the variant C17 is
\* checked against.
RaiseAfterRollback(st, outcome) == [st EXCEPT !.outcome = outcome, !.fs = fs]

\* restore_backup raises in the middle of the loop: what the entries before
\* have done stays done.
RaiseInLoop(st, outcome) == [st EXCEPT !.outcome = outcome]

\* The loop of restore_backup from entry k on; st is what the entries before k
\* have done.
RECURSIVE RestoreLoop(_, _, _, _, _)
RestoreLoop(entries, k, backup_root, target_root, st) ==
    IF k > Len(entries) THEN [st EXCEPT !.outcome = "ok"]
    ELSE LET rel == ParsePath(entries[k].relative_path)
             b == _validate_path_within(JoinPath(backup_root, rel), backup_root)
             t == _validate_path_within(JoinPath(target_root, rel), target_root)
             c == copy2(st.fs, b.path, t.path)
         IN  IF ~b.ok \/ ~t.ok THEN RaiseInLoop(st, "traversal")
             ELSE IF ~Exists(st.fs, b.path) THEN RaiseInLoop(st, "missing")
             ELSE IF ~c.ok THEN RaiseInLoop(st, "oserror")
             ELSE RestoreLoop(entries, k + 1, backup_root, target_root,
                              [st EXCEPT !.fs = c.fs,
                                         !.restored = Append(@, c.dst),
                                         !.reads = @ \cup {c.src},
                                         !.writes = @ \cup {c.dst}])

\* restore_backup(backup_dir, rid): outcome "not_found" where load_manifest
\* returns None
restore_backup(backup_root_dir, rid) ==
    LET mp == get_manifest_path(backup_root_dir, rid)
        st0 == [fs |-> fs, outcome |-> "", restored |-> <<>>, reads |-> {},
                writes |-> {}]
    IN  IF mp \notin DOMAIN manifests THEN [st0 EXCEPT !.outcome = "not_found"]
        ELSE LET manifest == from_dict(manifests[mp])
             IN  RestoreLoop(manifest.converted_files, 1,
                             backup_root_dir \o <<rid>>,
                             PathOfStr(manifest.target_path), st0)

\* sjis2utf8 --restore RUN_ID, for the id of a run of the session
Restore(n) ==
    /\ UNCHANGED idvars
    /\ pc \in Stopped
    /\ nrestores < MaxRestores
    /\ n \in 1..nruns
    /\ nrestores' = nrestores + 1
    /\ LET rid == generate_run_id(n)
           mp == get_manifest_path(backup_dir, rid)
           r == restore_backup(backup_dir, rid)
       IN  /\ fs' = r.fs
           /\ restore' = [run_id |-> rid, outcome |-> r.outcome,
                          restored |-> r.restored, reads |-> r.reads,
                          writes |-> r.writes, fs_before |-> fs,
                          entries |-> IF mp \in DOMAIN manifests
                                      THEN manifests[mp].converted_files ELSE <<>>,
                          target_root |-> IF mp \in DOMAIN manifests
                                          THEN Resolve(PathOfStr(manifests[mp].target_path))
                                          ELSE <<>>,
                          backup_root |-> Resolve(backup_dir \o <<rid>>),
                          follows_run |-> last_op = "run" /\ rid = run_id,
                          exit_code |-> IF r.outcome = "ok" THEN 0 ELSE 2]
    /\ last_op' = "restore"
    /\ UNCHANGED <<dirs, manifests, backup_dir, pc, config, run_id, walk_stack,
                   pending, cur, converted_files, summary, results, interrupted,
                   exit_code, nruns, faults, tampered, run_start, overwritten,
                   prev_run>>

\* relative paths that leave the roots
BadRelPaths ==
    {PathStr(<<DotDot, DotDot, Name_etc, Name_passwd>>),
     PathStr(<<DotDot, DotDot, Name_a_cs>>),
     AbsPathStr(EtcPasswd)}

\* relative paths an edited manifest can hold: those that leave the roots, and
\* one that stays inside and has no backup file
EditedRelPaths == BadRelPaths \cup {PathStr(<<Name_passwd>>)}

InsertAt(seq, k, e) == SubSeq(seq, 1, k - 1) \o <<e>> \o SubSeq(seq, k, Len(seq))

\* Someone edits a manifest.json on disk, which restore_backup will load: an
\* entry with a crafted relative path is put at position k.
TamperManifest(mp, k, bad) ==
    /\ UNCHANGED idvars
    /\ pc \in Stopped
    /\ ~tampered
    /\ faults < MaxFaults
    /\ faults' = faults + 1
    /\ mp \in DOMAIN manifests
    /\ k \in 1..(Len(manifests[mp].converted_files) + 1)
    /\ tampered' = TRUE
    /\ manifests' = [manifests EXCEPT ![mp].converted_files =
                        InsertAt(@, k, [relative_path |-> bad,
                                        source_encoding |-> "cp932",
                                        backup_path |-> bad])]
    /\ last_op' = "tamper"
    /\ UNCHANGED <<fs, dirs, backup_dir, pc, config, run_id, walk_stack, pending, cur,
                   converted_files, summary, results, interrupted, exit_code, nruns,
                   nrestores, restore, run_start, overwritten, prev_run>>

(***************************************************************************)
(* Properties                                                              *)
(***************************************************************************)
\* The backup of file p of the run in hand: it exists and holds the bytes p
\* holds now.
HasBackup(p) ==
    LET bp == get_backup_path(p, Resolve(config.target_path),
                              Resolve(config.backup_dir), run_id)
    IN  bp \in DOMAIN fs /\ fs[bp] = fs[p]

\* C1: in execute mode a step of the run changes the bytes of an existing file
\* (other than the run's own temporary file) only when the backup of that file
\* under backup_root/run_id already exists and holds the file's bytes of that
\* moment; so after a failed create_backup the original is never written.
C1_BackupBeforeOverwrite ==
    [][\A p \in DOMAIN fs :
          (pc \in Running /\ p # cur.temp /\ p \in DOMAIN fs' /\ fs'[p] # fs[p])
              => HasBackup(p)]_vars

\* a file has been overwritten, and its backup holds what it held before the run
C1_Witness ==
    \E p \in overwritten :
        /\ p \in DOMAIN run_start.fs
        /\ fs[p] # run_start.fs[p]
        /\ LET bp == get_backup_path(p, Resolve(config.target_path),
                                     Resolve(config.backup_dir), run_id)
           IN  bp \in DOMAIN fs /\ fs[bp] = run_start.fs[p]

\* C2: after an execute run that ended normally, with no failure, followed by
\* restore_backup of that run's id (which succeeds, on the manifest as the run
\* wrote it), every file the run converted holds what it held before the run.
C2_RestoreRoundTrip ==
    (/\ restore.follows_run
     /\ restore.outcome = "ok"
     /\ pc = "done"
     /\ exit_code = 0
     /\ faults = 0)
        => \A p \in overwritten \cap DOMAIN run_start.fs :
              p \in DOMAIN fs /\ fs[p] = run_start.fs[p]

\* the files the manifest of the run in hand lists
ManifestFiles ==
    LET mp == get_manifest_path(config.backup_dir, run_id)
    IN  IF mp \in DOMAIN manifests
        THEN {JoinPath(Resolve(config.target_path),
                       ParsePath(manifests[mp].converted_files[k].relative_path)) :
                 k \in 1..Len(manifests[mp].converted_files)}
        ELSE {}

\* C3: when an execute run has returned, after a complete scan or on the
\* interruption flag, the manifest of the run lists exactly the files the run
\* overwrote.
C3_ManifestListsOverwritten ==
    (pc = "done" /\ last_op = "run" /\ config.execute /\ faults = 0)
        => ManifestFiles = overwritten

Escapes(e) ==
    LET rel == ParsePath(e.relative_path)
    IN  \/ ~IsPrefix(restore.backup_root, Resolve(JoinPath(restore.backup_root, rel)))
        \/ ~IsPrefix(restore.target_root, Resolve(JoinPath(restore.target_root, rel)))

\* C5: restore_backup writes only under the target root of the manifest and
\* reads only under backup_root/run_id, no file outside the target root
\* changes, and when the loop comes to an entry that leads out of either root
\* the restore ends with the path-traversal error.
C5_RestoreStaysInside ==
    restore.outcome # ""
        => /\ \A w \in restore.writes : IsPrefix(restore.target_root, w)
           /\ \A r \in restore.reads : IsPrefix(restore.backup_root, r)
           /\ \A p \in (DOMAIN fs) \cup (DOMAIN restore.fs_before) :
                 ~IsPrefix(restore.target_root, p)
                     => /\ p \in DOMAIN fs
                        /\ p \in DOMAIN restore.fs_before
                        /\ fs[p] = restore.fs_before[p]
           /\ LET k == Len(restore.restored) + 1
              IN  (k <= Len(restore.entries) /\ Escapes(restore.entries[k]))
                      => restore.outcome = "traversal"
           /\ restore.outcome = "ok"
                 => \A k \in 1..Len(restore.entries) : ~Escapes(restore.entries[k])

\* a restore of an edited manifest has ended with the path-traversal error
C5_Witness ==
    /\ tampered
    /\ restore.outcome = "traversal"
    /\ \E k \in 1..Len(restore.entries) : Escapes(restore.entries[k])

\* C6: a restore that ends with the path-traversal error has copied no file,
\* wherever the offending entry sits in the manifest.
C6_TraversalBeforeAnyCopy ==
    restore.outcome = "traversal"
        => restore.writes = {} /\ fs = restore.fs_before

\* what a conversion makes of the bytes old
ConvertedOf(old) ==
    convert_to_utf8_bom(DecodeAs(old, detect_encoding_from_bytes(old)).text)

\* C7: at every moment of a run, a failure or a crash in the middle of
\* atomic_write included, the path of a file holds either all of its old bytes
\* or all of the converted bytes.
C7_OldOrNew ==
    /\ cur.path # <<>>
          => /\ cur.path \in DOMAIN fs
             /\ fs[cur.path] \in {cur.data, convert_to_utf8_bom(cur.text)}
    /\ last_op = "run"
          => \A p \in DOMAIN run_start.fs :
                /\ p \in DOMAIN fs
                /\ \/ fs[p] = run_start.fs[p]
                   \/ /\ DecodeAs(run_start.fs[p],
                                  detect_encoding_from_bytes(run_start.fs[p])).ok
                      /\ fs[p] = ConvertedOf(run_start.fs[p])

\* the process died in the middle of f.write(): the temporary file holds part
\* of the content and the file itself all of its old bytes
C7_Witness ==
    /\ pc = "crashed"
    /\ cur.temp \in DOMAIN fs
    /\ fs[cur.temp] # <<>>
    /\ fs[cur.temp] # convert_to_utf8_bom(cur.text)
    /\ fs[cur.path] = cur.data

\* C8: no exception leaves convert_file: every file the loop handed to it has
\* exactly one FileResult, a result of status ERROR comes with no
\* ConvertedFileInfo, and a run that was not interrupted has a result for
\* every file of the target root, the files after a failed one included.
C8_ConvertFileNeverRaises ==
    /\ pc # "raised"
    /\ \A i, j \in 1..Len(results) : results[i].path = results[j].path => i = j
    /\ Len(results) = summary.total_files
    /\ \A i \in 1..Len(results) :
          results[i].status = "error"
              => \A k \in 1..Len(converted_files) :
                    converted_files[k].relative_path #
                        PathStr(RelativeTo(results[i].path, Resolve(config.target_path)))
    /\ Len(converted_files) =
          Cardinality({i \in 1..Len(results) :
                          results[i].status = "converted" /\ config.execute})
    /\ (pc = "done" /\ exit_code # 3)
          => {FileA, FileB} \subseteq {results[i].path : i \in 1..Len(results)}

\* a file ended in an ERROR result and the loop went on to another file
C8_Witness ==
    /\ pc = "done"
    /\ \E i \in 1..Len(results) :
          results[i].status = "error" /\ i < Len(results)

\* C9: an execute run that follows an execute run with the same configuration,
\* both ended normally and the first without error, converts nothing, creates
\* no backup file and writes no manifest.
C9_SecondRunIdle ==
    (/\ nruns >= 2
     /\ pc = "done"
     /\ exit_code = 0
     /\ config.execute
     /\ config = prev_run.config
     /\ prev_run.pc = "done"
     /\ prev_run.exit_code = 0)
        => /\ summary.converted = 0
           /\ DOMAIN fs = DOMAIN run_start.fs
           /\ manifests = run_start.manifests

\* C10: a run during which the interruption flag was set returns exit code 3.
C10_InterruptExitCode ==
    (pc = "done" /\ interrupted) => exit_code = 3

\* the files of the target root that the run in hand never handed to
\* convert_file
NotHandled ==
    {p \in DOMAIN run_start.fs :
        /\ IsPrefix(Resolve(config.target_path), p)
        /\ p # cur.path
        /\ \A i \in 1..Len(results) : results[i].path # p}

\* C11: once the interruption flag is set no convert_file call begins: between
\* two files a step with the flag set changes no file and no directory and adds
\* no result, the file in hand when the flag is set stays the file in hand
\* until it is finished, and every file of the target root the run did not
\* hand to convert_file keeps its bytes and has no backup.
C11_NoConvertAfterFlag ==
    /\ [](last_op = "run"
            => \A p \in NotHandled :
                  /\ p \in DOMAIN fs
                  /\ fs[p] = run_start.fs[p]
                  /\ get_backup_path(p, Resolve(config.target_path),
                                     Resolve(config.backup_dir), run_id)
                         \notin DOMAIN fs)
    /\ [][interrupted
            => /\ cur'.path \in {cur.path, <<>>}
               /\ pc = "scan"
                     => /\ fs' = fs
                        /\ dirs' = dirs
                        /\ results' = results
                        /\ pc' \in {"scan", "done"}]_vars

\* the run stopped on the flag after it finished the file that was in hand,
\* and a file it never reached is as it was
C11_Witness ==
    /\ pc = "done"
    /\ exit_code = 3
    /\ interrupted
    /\ overwritten # {}
    /\ \E p \in NotHandled :
          /\ detect_encoding_from_bytes(fs[p]) = "cp932"
          /\ fs[p] = run_start.fs[p]

\* C12: an execute run that follows a dry run of the same tree with the same
\* configuration apart from the execute flag, both ended normally and without
\* error, reports the same files with the same FileStatus and the same detected
\* encoding as the dry run did.
C12_DryRunSameClassification ==
    (/\ nruns >= 2
     /\ pc = "done"
     /\ exit_code = 0
     /\ config.execute
     /\ ~prev_run.config.execute
     /\ config = [prev_run.config EXCEPT !.execute = TRUE]
     /\ prev_run.pc = "done"
     /\ prev_run.exit_code = 0)
        => Classifications(results) = prev_run.results

\* C13: a step of a run changes a file or a directory only in execute mode and
\* for a file in hand whose detected encoding is not of the warning class and
\* passes should_convert; the step on which convert_file returns WARNING or
\* SKIPPED changes no file, no directory and no manifest.
C13_SideEffectsOnlyOnConvertPath ==
    [][/\ (pc \in Running /\ (fs' # fs \/ dirs' # dirs))
            => /\ config.execute
               /\ cur.path # <<>>
               /\ cur.encoding = detect_encoding_from_bytes(cur.data)
               /\ ~is_warning_encoding(cur.encoding)
               /\ should_convert(cur.encoding, config.include_utf8_no_bom)
       /\ (/\ Len(results') = Len(results) + 1
           /\ results'[Len(results')].status \in {"warning", "skipped"})
            => /\ fs' = fs
               /\ dirs' = dirs
               /\ manifests' = manifests]_vars

\* an execute run converted one file and returned WARNING or SKIPPED for
\* another, which is as it was
C13_Witness ==
    /\ config.execute
    /\ overwritten # {}
    /\ \E i \in 1..Len(results) :
          /\ results[i].status \in {"warning", "skipped"}
          /\ fs[results[i].path] = run_start.fs[results[i].path]

\* the FileStatus the partition gives encoding e under the flag
StatusOf(e, include_utf8_no_bom) ==
    IF e \in {"utf-16-le", "utf-16-be", "binary", "unknown"} THEN "warning"
    ELSE IF e = "cp932" \/ (include_utf8_no_bom /\ e = "utf-8") THEN "converted"
    ELSE "skipped"

\* C14: should_convert is true exactly for CP932 and, with the flag set, for
\* UTF-8 without BOM; is_warning_encoding exactly for UTF-16 LE/BE, BINARY and
\* UNKNOWN; never both, and never should_convert for UTF-8 with BOM.  A result
\* of convert_file that is not an ERROR has the encoding detected from the
\* file's bytes and the status this partition gives it.
C14_StatusPartition ==
    /\ \A e \in Encoding, b \in BOOLEAN :
          /\ should_convert(e, b) <=> (e = "cp932" \/ (b /\ e = "utf-8"))
          /\ is_warning_encoding(e)
                <=> e \in {"utf-16-le", "utf-16-be", "binary", "unknown"}
          /\ ~(should_convert(e, b) /\ is_warning_encoding(e))
          /\ ~should_convert("utf-8-bom", b)
    /\ \A i \in 1..Len(results) :
          (results[i].status # "error" /\ results[i].path \in DOMAIN run_start.fs)
              => LET e == detect_encoding_from_bytes(run_start.fs[results[i].path])
                 IN  /\ results[i].source_encoding = e
                     /\ results[i].status = StatusOf(e, config.include_utf8_no_bom)

\* a run ended with a WARNING for one file and a CONVERTED for the other
C14_Witness ==
    /\ pc = "done"
    /\ \E i, j \in 1..Len(results) :
          results[i].status = "warning" /\ results[j].status = "converted"

\* The ordered rule list, each rule with the condition that no earlier rule
\* matched: enc is what the list gives the buffer data.
RuleListGives(data, enc) ==
    LET bom8 == Len(data) >= 3 /\ SubSeq(data, 1, 3) = <<239, 187, 191>>
        le == Len(data) >= 2 /\ SubSeq(data, 1, 2) = <<255, 254>>
        be == Len(data) >= 2 /\ SubSeq(data, 1, 2) = <<254, 255>>
        nobom == ~bom8 /\ ~le /\ ~be
        nul == \E i \in 1..Len(data) : data[i] = 0
        utf8 == Utf8Decode(data).ok
        sjis == Cp932Decode(data).ok
    IN  /\ bom8 => enc = "utf-8-bom"
        /\ le => enc = "utf-16-le"
        /\ be => enc = "utf-16-be"
        /\ data = <<>> => enc = "utf-8"
        /\ (nobom /\ data # <<>> /\ nul) => enc = "binary"
        /\ (nobom /\ data # <<>> /\ ~nul /\ utf8) => enc = "utf-8"
        /\ (nobom /\ data # <<>> /\ ~nul /\ ~utf8 /\ sjis) => enc = "cp932"
        /\ (nobom /\ data # <<>> /\ ~nul /\ ~utf8 /\ ~sjis) => enc = "unknown"

\* C15: the encoding convert_file detects for a file is the one the ordered
\* first-match rule list gives the file's bytes: the BOMs first, whatever
\* follows them, then the empty buffer, a NUL byte, strict UTF-8, strict CP932,
\* and UNKNOWN.
C15_DetectIsRuleList ==
    \A i \in 1..Len(results) :
        results[i].path \in DOMAIN run_start.fs
            => RuleListGives(run_start.fs[results[i].path], results[i].source_encoding)

\* a buffer with a UTF-16 LE BOM and a NUL byte was detected as UTF-16 LE, and
\* one with a UTF-8 BOM followed by bytes that are not UTF-8 as UTF-8 with BOM
C15_Witness ==
    \E i \in 1..Len(results) :
        LET data == run_start.fs[results[i].path]
        IN  \/ /\ results[i].source_encoding = "utf-16-le"
               /\ HasNul(data)
            \/ /\ results[i].source_encoding = "utf-8-bom"
               /\ ~Utf8Decode(data).ok

EntryBackup(e) == Resolve(JoinPath(restore.backup_root, ParsePath(e.relative_path)))

EntryTarget(e) == Resolve(JoinPath(restore.target_root, ParsePath(e.relative_path)))

\* C17: restore_backup takes the entries in manifest order and rolls nothing
\* back: when it fails at entry k (no backup file, or a path that leaves a
\* root), the targets of the entries before k hold the bytes of their backups,
\* in that order, the target of entry k and of every later entry and every
\* other file are as they were, and run_restore returns exit code 2.
C17_RestoreNoRollback ==
    restore.outcome \in {"traversal", "missing", "oserror"}
        => LET k == Len(restore.restored) + 1
               done == {EntryTarget(restore.entries[j]) : j \in 1..(k - 1)}
           IN  /\ k <= Len(restore.entries)
               /\ restore.exit_code = 2
               /\ \A j \in 1..(k - 1) :
                     /\ restore.restored[j] = EntryTarget(restore.entries[j])
                     /\ EntryBackup(restore.entries[j]) \in DOMAIN restore.fs_before
                     /\ fs[EntryTarget(restore.entries[j])]
                           = restore.fs_before[EntryBackup(restore.entries[j])]
               /\ DOMAIN fs = DOMAIN restore.fs_before
               /\ \A p \in (DOMAIN fs) \ done : fs[p] = restore.fs_before[p]
               /\ \A j \in k..Len(restore.entries) :
                     EntryTarget(restore.entries[j]) \notin done

\* a restore failed at its second entry or later, on a missing backup file,
\* after it had brought a converted file back to its backup's bytes
C17_Witness ==
    /\ restore.outcome = "missing"
    /\ restore.restored # <<>>
    /\ fs # restore.fs_before

\* name is one of the built-in excluded directory names, or matches a pattern
\* of the user that ends in "/"
ExcludedName(name) ==
    \/ name \in {<<"L", "i", "b", "r", "a", "r", "y">>, <<"T", "e", "m", "p">>,
                 <<"o", "b", "j">>, <<"b", "i", "n">>, <<".", "g", "i", "t">>,
                 <<".", "v", "s">>}
    \/ \E k \in 1..Len(config.exclude_patterns) :
          LET pat == config.exclude_patterns[k]
          IN  /\ pat # <<>>
              /\ pat[Len(pat)] = "/"
              /\ fnmatch(name, RStripSlash(pat))

\* a directory of path, from position first below the target root up to
\* position last, has an excluded name
HasExcludedDir(path, last) ==
    \E k \in (Len(Resolve(config.target_path)) + 1)..last : ExcludedName(path[k])

\* C18: scan_files never walks a directory and never yields a file that lies,
\* at any depth, in a directory below the target root whose name is one of the
\* built-in excluded names or matches a user pattern ending in "/".
C18_ExcludedDirsNeverEntered ==
    pc \in Running \cup {"done"}
        => /\ \A i \in 1..Len(walk_stack) :
                 ~HasExcludedDir(walk_stack[i], Len(walk_stack[i]))
           /\ \A f \in pending : ~HasExcludedDir(f, Len(f) - 1)
           /\ \A i \in 1..Len(results) :
                 ~HasExcludedDir(results[i].path, Len(results[i].path) - 1)
           /\ cur.path # <<>> => ~HasExcludedDir(cur.path, Len(cur.path) - 1)

\* the scan ended; it yielded a file, and left alone a file with the scanned
\* extension two levels below an excluded directory
C18_Witness ==
    /\ pc = "done"
    /\ results # <<>>
    /\ \E f \in DOMAIN fs :
          /\ Len(f) >= Len(Resolve(config.target_path)) + 3
          /\ ExcludedName(f[Len(Resolve(config.target_path)) + 1])
          /\ \A i \in 1..Len(results) : results[i].path # f

\* C19: of two run ids generated at different moments the later one is the
\* lexicographically greater, so that list_backups returns the runs newest
\* first.
C19_LaterRunIdIsGreater ==
    /\ \A i, j \in DOMAIN issued : i < j => StrLess(issued[i], issued[j])
    /\ \A i \in DOMAIN issued :
          list_backups({issued[k] : k \in DOMAIN issued})[i]
              = issued[Len(issued) + 1 - i]

\* Detection is ambiguous: the bytes decode strictly under both candidates.
Ambiguous(data) == Utf8Decode(data).ok /\ Cp932Decode(data).ok

\* C20: with --strict a file whose detection is ambiguous is skipped and
\* never converted, whatever the other flags are.
C20_StrictSkipsAmbiguous ==
    (config.strict /\ FileA \in DOMAIN run_start.fs
                   /\ Ambiguous(run_start.fs[FileA]))
        => /\ fs[FileA] = run_start.fs[FileA]
           /\ \A i \in DOMAIN results :
                 results[i].path = FileA => results[i].status # "converted"

\* Japanese text: some byte is not ASCII.
NonAscii(data) == \E i \in 1..Len(data) : data[i] >= 128

\* C21: with --assume-cp932 a file of non-ASCII text whose bytes are valid
\* under both UTF-8 and CP932 is classified as CP932, not as UTF-8.
C21_AssumeCp932Prefers ==
    (config.assume_cp932 /\ FileA \in DOMAIN run_start.fs
                         /\ NonAscii(run_start.fs[FileA])
                         /\ Ambiguous(run_start.fs[FileA]))
        => \A i \in DOMAIN results :
              (results[i].path = FileA /\ results[i].status # "error")
                  => results[i].source_encoding = "cp932"

ResultPaths == {results[i].path : i \in DOMAIN results}

\* C22: a run that was not interrupted and ran to its end returns 1 if some
\* scanned file gave an ERROR result and 0 otherwise, and it has a result for
\* both files of the target root: an ERROR on one did not stop the loop.
C22_ExitCodeReflectsErrors ==
    (pc = "done" /\ ~interrupted)
        => /\ exit_code = (IF \E i \in DOMAIN results : results[i].status = "error"
                           THEN 1 ELSE 0)
           /\ {FileA, FileB} \subseteq ResultPaths

\* a run returned 1 with an ERROR result followed by a CONVERTED one
C22_Witness ==
    /\ pc = "done"
    /\ ~interrupted
    /\ exit_code = 1
    /\ \E i, j \in DOMAIN results :
          i < j /\ results[i].status = "error" /\ results[j].status = "converted"

\* (path / "manifest.json").exists(), as list_backups tests a run directory
ManifestFileExists(backup_root, rid) ==
    get_manifest_path(backup_root, rid) \in (DOMAIN manifests) \cup (DOMAIN fs)

\* C23: once a run has returned, a manifest file exists under
\* backup_root/run_id only if the run was in execute mode and converted at
\* least one file.
C23_ManifestOnlyAfterConversion ==
    (pc = "done" /\ ManifestFileExists(config.backup_dir, run_id))
        => /\ config.execute
           /\ converted_files # <<>>

\* an allow-list entry with its leading dot
LeadingDot(ext) == IF ext # <<>> /\ ext[1] = "." THEN ext ELSE <<".">> \o ext

SuffixAllowed(f) ==
    \E k \in 1..Len(config.extensions) :
        Lower(Suffix(BaseName(f))) = Lower(LeadingDot(config.extensions[k]))

\* the name of f, or its path relative to the target root, matches an exclude
\* pattern that does not end in "/"
FileExcluded(f) ==
    LET patterns == DEFAULT_EXCLUDE_PATTERNS \o config.exclude_patterns
    IN  \E k \in 1..Len(patterns) :
            /\ patterns[k] = <<>> \/ patterns[k][Len(patterns[k])] # "/"
            /\ \/ fnmatch(BaseName(f), patterns[k])
               \/ fnmatch(PathStr(RelativeTo(f, Resolve(config.target_path))),
                          patterns[k])

\* C24: when the scan has ended, the files it yielded are the files in
\* non-excluded directories whose suffix is on the allow-list and which no
\* file exclude pattern matches, by name or by relative path, and each was
\* yielded once.
C24_YieldedIffAllowedAndNotExcluded ==
    (pc = "done" /\ exit_code # 3)
        => /\ ResultPaths = {f \in DOMAIN fs :
                                /\ IsPrefix(Resolve(config.target_path), f)
                                /\ ~HasExcludedDir(f, Len(f) - 1)
                                /\ SuffixAllowed(f)
                                /\ ~FileExcluded(f)}
           /\ Len(results) = Cardinality(ResultPaths)

\* the scan ended having yielded A.CS and having left out, by a pattern on the
\* relative path, a file of an allowed suffix in src
C24_Witness ==
    /\ pc = "done"
    /\ TargetRoot \o <<Name_A_CS>> \in ResultPaths
    /\ config.exclude_patterns # <<>>
    /\ \E f \in DOMAIN fs :
          /\ Len(f) = Len(TargetRoot) + 2
          /\ SuffixAllowed(f)
          /\ ~fnmatch(BaseName(f), config.exclude_patterns[1])
          /\ f \notin ResultPaths

\* C25: load_manifest after save_manifest(m) returns a manifest equal to m,
\* save_manifest having written the file; load_manifest returns None, not an
\* error, where no manifest file exists.
C25_ManifestRoundTrip ==
    /\ mio.save \in {"none", "ok"}
    /\ (mio.load # "none" /\ mio.before_save) => mio.load = "None"
    /\ (mio.load # "none" /\ ~mio.before_save)
          => (mio.load = "ok" /\ mio.loaded = mio.m)

\* C26: when convert_file returns an ERROR result for a file, the file holds
\* the bytes it held before the call, and the call adds no ConvertedFileInfo.
C26_ErrorLeavesOriginal ==
    [][(/\ Len(results') = Len(results) + 1
        /\ results'[Len(results')].status = "error")
          => LET p == results'[Len(results')].path
                 before == IF cur.path = p THEN cur.data ELSE fs[p]
             IN  /\ p \in DOMAIN fs'
                 /\ fs'[p] = before
                 /\ converted_files' = converted_files]_vars

\* convert_file returned an ERROR for a file after its backup was written:
\* the failure was in atomic_write
C26_Witness ==
    \E i \in DOMAIN results :
        /\ results[i].status = "error"
        /\ config.execute
        /\ results[i].path \in DOMAIN run_start.fs
        /\ get_backup_path(results[i].path, Resolve(config.target_path),
                           Resolve(config.backup_dir), run_id) \in DOMAIN fs
        /\ fs[get_backup_path(results[i].path, Resolve(config.target_path),
                              Resolve(config.backup_dir), run_id)]
              = run_start.fs[results[i].path]

\* C27: wherever the backup root lies, the backup copy of a file the run
\* has overwritten keeps the bytes the file held before the run: the scan
\* does not yield it and convert_file does not overwrite it.
C27_BackupsNeverConverted ==
    last_op = "run"
        => \A p \in overwritten \cap DOMAIN run_start.fs :
              LET bp == get_backup_path(p, Resolve(config.target_path),
                                        Resolve(config.backup_dir), run_id)
              IN  /\ bp \notin ResultPaths
                  /\ bp \in DOMAIN fs => fs[bp] = run_start.fs[p]

\* C28: every ConvertedFileInfo of an execute run has backup_path equal to
\* run_id + "/" + relative_path, and the files restore_backup reads for the
\* entries, backup_dir/run_id/relative_path, are the files create_backup
\* wrote for the files the run has overwritten.
C28_RestoreReadsWhatBackupWrote ==
    (last_op = "run" /\ config.execute)
        => /\ \A k \in DOMAIN converted_files :
                 converted_files[k].backup_path
                     = run_id \o <<Slash>> \o converted_files[k].relative_path
           /\ {Resolve(JoinPath(Resolve(config.backup_dir) \o <<run_id>>,
                                ParsePath(converted_files[k].relative_path))) :
                   k \in DOMAIN converted_files}
                 = {get_backup_path(p, Resolve(config.target_path),
                                    Resolve(config.backup_dir), run_id) :
                       p \in overwritten}

(***************************************************************************)
(* The session                                                             *)
(***************************************************************************)
Faults == {NoFault} \cup IOErrors

\* One conversion run, with I/O failures, a crash and SIGINT, and then a
\* restore, of a manifest that may have been edited.
Next ==
    \/ \E execute \in BOOLEAN, include \in BOOLEAN :
          nruns = 0 /\ StartRun(execute, include)
    \/ ScanDir
    \/ \E f \in pending, exc \in Faults : LoopIter(f, exc)
    \/ \E exc \in Faults, made \in BOOLEAN : CreateBackup(exc, made)
    \/ \E exc \in Faults : Mkstemp(exc)
    \/ \E exc \in Faults : WriteTemp(exc)
    \/ \E exc \in Faults : Rename(exc)
    \/ Finish
    \/ Interrupt
    \/ Crash
    \/ \E n \in 1..MaxRuns : Restore(n)
    \/ \E mp \in DOMAIN manifests, k \in 1..3, bad \in EditedRelPaths :
          TamperManifest(mp, k, bad)

Spec == Init /\ [][Next]_vars

\* Conversion runs one after the other on a filesystem that does not fail.
NextRerun ==
    \/ \E execute \in BOOLEAN, include \in BOOLEAN : StartRun(execute, include)
    \/ ScanDir
    \/ \E f \in pending : LoopIter(f, NoFault)
    \/ CreateBackup(NoFault, TRUE)
    \/ Mkstemp(NoFault)
    \/ WriteTemp(NoFault)
    \/ Rename(NoFault)
    \/ Finish
    \/ Interrupt

SpecRerun == Init /\ [][NextRerun]_vars

\* One file, with any of the buffers as its bytes, and one run over it on a
\* filesystem that does not fail.
InitDetect ==
    /\ \E data \in Buffers : fs = (FileA :> data)
    /\ backup_dir = BackupOutside
    /\ dirs = {TargetRoot}
    /\ manifests = <<>>
    /\ pc = "idle"
    /\ config = NoConfig
    /\ run_id = <<>>
    /\ walk_stack = <<>>
    /\ pending = {}
    /\ cur = NoCur
    /\ converted_files = <<>>
    /\ summary = ZeroSummary
    /\ results = <<>>
    /\ interrupted = FALSE
    /\ exit_code = -1
    /\ nruns = 0
    /\ nrestores = 0
    /\ faults = 0
    /\ restore = NoRestore
    /\ tampered = FALSE
    /\ run_start = [fs |-> <<>>, dirs |-> {}, manifests |-> <<>>]
    /\ overwritten = {}
    /\ prev_run = NoRun
    /\ last_op = "none"
    /\ now = 0
    /\ issued = <<>>
    /\ mio = NoManifestIO

NextDetect ==
    \/ \E execute \in BOOLEAN, include \in BOOLEAN, strict \in BOOLEAN,
          assume_cp932 \in BOOLEAN :
          nruns = 0 /\ StartRunOpts(execute, include, <<>>, strict, assume_cp932,
                                    <<Ext_cs>>)
    \/ ScanDir
    \/ \E f \in pending : LoopIter(f, NoFault)
    \/ CreateBackup(NoFault, TRUE)
    \/ Mkstemp(NoFault)
    \/ WriteTemp(NoFault)
    \/ Rename(NoFault)
    \/ Finish

SpecDetect == InitDetect /\ [][NextDetect]_vars

\* directories a tree of SpecScan can have below the target root
ScanDirs ==
    {TargetRoot \o <<Name_obj>>, TargetRoot \o <<Name_obj, Name_sub>>,
     TargetRoot \o <<Name_src>>, TargetRoot \o <<Name_src, Name_bin>>,
     TargetRoot \o <<Name_src, Name_gen>>}

\* --exclude values of SpecScan: none, a directory pattern, a directory
\* pattern with a wildcard, and a file pattern
ScanExcludes ==
    {<<>>, << <<"g", "e", "n", "/">> >>, << <<"s", "*", "/">> >>,
     << <<"g", "e", "n">> >>}

\* A tree of directories below the target root, each with one CP932 file of
\* the scanned extension.
InitScan ==
    /\ \E D \in SUBSET ScanDirs :
          /\ \A d \in D : Len(d) > 2 => Parent(d) \in D
          /\ dirs = {TargetRoot} \cup D
          /\ fs = [f \in {d \o <<Name_a_cs>> : d \in {TargetRoot} \cup D}
                      |-> SampleCp932]
    /\ backup_dir = BackupOutside
    /\ manifests = <<>>
    /\ pc = "idle"
    /\ config = NoConfig
    /\ run_id = <<>>
    /\ walk_stack = <<>>
    /\ pending = {}
    /\ cur = NoCur
    /\ converted_files = <<>>
    /\ summary = ZeroSummary
    /\ results = <<>>
    /\ interrupted = FALSE
    /\ exit_code = -1
    /\ nruns = 0
    /\ nrestores = 0
    /\ faults = 0
    /\ restore = NoRestore
    /\ tampered = FALSE
    /\ run_start = [fs |-> <<>>, dirs |-> {}, manifests |-> <<>>]
    /\ overwritten = {}
    /\ prev_run = NoRun
    /\ last_op = "none"
    /\ now = 0
    /\ issued = <<>>
    /\ mio = NoManifestIO

NextScan ==
    \/ \E execute \in BOOLEAN, exclude \in ScanExcludes :
          nruns = 0 /\ StartRunWith(execute, FALSE, exclude)
    \/ ScanDir
    \/ \E f \in pending : LoopIter(f, NoFault)
    \/ CreateBackup(NoFault, TRUE)
    \/ Mkstemp(NoFault)
    \/ WriteTemp(NoFault)
    \/ Rename(NoFault)
    \/ Finish

SpecScan == InitScan /\ [][NextScan]_vars

(***************************************************************************)
(* A target root that holds a file named manifest.json, converted with     *)
(* --ext .json .cs: one run with at most MaxFaults I/O failures.           *)
(***************************************************************************)
InitManifestName ==
    /\ \E ca \in Samples, cm \in Samples :
          fs = (FileA :> ca) @@ (FileManifest :> cm)
    /\ backup_dir = BackupOutside
    /\ dirs = {TargetRoot}
    /\ manifests = <<>>
    /\ pc = "idle"
    /\ config = NoConfig
    /\ run_id = <<>>
    /\ walk_stack = <<>>
    /\ pending = {}
    /\ cur = NoCur
    /\ converted_files = <<>>
    /\ summary = ZeroSummary
    /\ results = <<>>
    /\ interrupted = FALSE
    /\ exit_code = -1
    /\ nruns = 0
    /\ nrestores = 0
    /\ faults = 0
    /\ restore = NoRestore
    /\ tampered = FALSE
    /\ run_start = [fs |-> <<>>, dirs |-> {}, manifests |-> <<>>]
    /\ overwritten = {}
    /\ prev_run = NoRun
    /\ last_op = "none"
    /\ now = 0
    /\ issued = <<>>
    /\ mio = NoManifestIO

NextManifestName ==
    \/ \E execute \in BOOLEAN, include \in BOOLEAN :
          nruns = 0 /\ StartRunOpts(execute, include, <<>>, FALSE, FALSE,
                                    <<Ext_json, Ext_cs>>)
    \/ ScanDir
    \/ \E f \in pending, exc \in Faults : LoopIter(f, exc)
    \/ \E exc \in Faults : CreateBackup(exc, TRUE)
    \/ \E exc \in Faults : Mkstemp(exc)
    \/ \E exc \in Faults : WriteTemp(exc)
    \/ \E exc \in Faults : Rename(exc)
    \/ Finish

SpecManifestName == InitManifestName /\ [][NextManifestName]_vars

(***************************************************************************)
(* The file filter of scan_files: dry runs over a tree with names of        *)
(* several suffixes, under several --ext and --exclude values.             *)
(***************************************************************************)
FilterFiles ==
    {TargetRoot \o <<Name_a_cs>>, TargetRoot \o <<Name_A_CS>>,
     TargetRoot \o <<Name_dot_cs>>, TargetRoot \o <<Name_b_txt>>,
     TargetRoot \o <<Name_src, Name_a_cs>>, TargetRoot \o <<Name_obj, Name_a_cs>>}

\* --exclude values: none, a file name, a relative path with a wildcard, a
\* suffix in capitals, a one-character wildcard, a directory pattern
FilterExcludes ==
    {<<>>, << <<"a", ".", "c", "s">> >>, << <<"s", "r", "c", "/", "*">> >>,
     << <<"*", ".", "C", "S">> >>, << <<"?", ".", "c", "s">> >>,
     << <<"s", "r", "c", "/">> >>}

\* --ext values: the default, without dot and in capitals, two entries
FilterExts ==
    {<<Ext_cs>>, << <<"C", "S">> >>, << <<".", "C", "s">>, <<"t", "x", "t">> >>}

InitFilter ==
    /\ fs = [f \in FilterFiles |-> SampleCp932]
    /\ backup_dir = BackupOutside
    /\ dirs = {TargetRoot, TargetRoot \o <<Name_src>>, TargetRoot \o <<Name_obj>>}
    /\ manifests = <<>>
    /\ pc = "idle"
    /\ config = NoConfig
    /\ run_id = <<>>
    /\ walk_stack = <<>>
    /\ pending = {}
    /\ cur = NoCur
    /\ converted_files = <<>>
    /\ summary = ZeroSummary
    /\ results = <<>>
    /\ interrupted = FALSE
    /\ exit_code = -1
    /\ nruns = 0
    /\ nrestores = 0
    /\ faults = 0
    /\ restore = NoRestore
    /\ tampered = FALSE
    /\ run_start = [fs |-> <<>>, dirs |-> {}, manifests |-> <<>>]
    /\ overwritten = {}
    /\ prev_run = NoRun
    /\ last_op = "none"
    /\ now = 0
    /\ issued = <<>>
    /\ mio = NoManifestIO

NextFilter ==
    \/ \E exclude \in FilterExcludes, extensions \in FilterExts :
          nruns = 0 /\ StartRunOpts(FALSE, FALSE, exclude, FALSE, FALSE, extensions)
    \/ ScanDir
    \/ \E f \in pending : LoopIter(f, NoFault)
    \/ Finish

SpecFilter == InitFilter /\ [][NextFilter]_vars

(***************************************************************************)
(* save_manifest and load_manifest on one RunManifest, as run_conversion   *)
(* builds it for a file of the target root.                                *)
(***************************************************************************)
\* Characters of a file name: a, ".", a quote, a backslash, a newline, a
\* control character, HIRAGANA A, and the surrogate os.fsdecode gives for the
\* byte 0x82 of a name that is not UTF-8.
NameChars == {97, 46, 34, 92, 10, 1, 12354, 56450}

Names == UNION {[1..n -> NameChars] : n \in 1..MaxNameLen}

Str_r1 == <<114, 49>>

Str_cp932 == <<99, 112, 57, 51, 50>>

\* the RunManifest of a run that converted the file called name
ManifestOf(name, include, exclude) ==
    [run_id |-> Str_r1,
     timestamp |-> <<50, 48, 50, 54>>,
     target_path |-> <<47, 116>>,
     converted_files |->
        <<[relative_path |-> name, source_encoding |-> Str_cp932,
           backup_path |-> Str_r1 \o <<47>> \o name]>>,
     config |-> [extensions |-> <<<<46, 99, 115>>>>,
                 include_utf8_no_bom |-> include,
                 exclude_patterns |-> exclude]]

SaveManifest ==
    /\ mio.save = "none"
    /\ LET r == save_manifest(mio.m)
       IN  mio' = [mio EXCEPT !.save = r.outcome, !.file = r.file]
    /\ UNCHANGED <<session, now, issued>>

LoadManifest ==
    /\ mio.load = "none"
    /\ LET r == load_manifest(mio.file)
       IN  mio' = [mio EXCEPT !.load = r.outcome, !.loaded = r.manifest,
                              !.before_save = (mio.save = "none")]
    /\ UNCHANGED <<session, now, issued>>

InitManifestIO ==
    /\ fs = <<>>
    /\ backup_dir = BackupOutside
    /\ dirs = {TargetRoot}
    /\ manifests = <<>>
    /\ pc = "idle"
    /\ config = NoConfig
    /\ run_id = <<>>
    /\ walk_stack = <<>>
    /\ pending = {}
    /\ cur = NoCur
    /\ converted_files = <<>>
    /\ summary = ZeroSummary
    /\ results = <<>>
    /\ interrupted = FALSE
    /\ exit_code = -1
    /\ nruns = 0
    /\ nrestores = 0
    /\ faults = 0
    /\ restore = NoRestore
    /\ tampered = FALSE
    /\ run_start = [fs |-> <<>>, dirs |-> {}, manifests |-> <<>>]
    /\ overwritten = {}
    /\ prev_run = NoRun
    /\ last_op = "none"
    /\ now = 0
    /\ issued = <<>>
    /\ \E name \in Names, include \in BOOLEAN, excluded \in BOOLEAN :
          mio = [NoManifestIO EXCEPT
                    !.m = ManifestOf(name, include,
                                     IF excluded THEN <<name>> ELSE <<>>)]

NextManifestIO ==
    \/ SaveManifest
    \/ LoadManifest

SpecManifestIO == InitManifestIO /\ [][NextManifestIO]_vars

(***************************************************************************)
(* A target root with a file whose name holds a backslash: one run without *)
(* failures, then a restore.                                               *)
(***************************************************************************)
FileBackslash == TargetRoot \o <<Name_a_bs_b_cs>>

InitBackslash ==
    /\ \E ca \in Samples, cb \in Samples :
          fs = (FileA :> ca) @@ (FileBackslash :> cb)
    /\ backup_dir = BackupOutside
    /\ dirs = {TargetRoot}
    /\ manifests = <<>>
    /\ pc = "idle"
    /\ config = NoConfig
    /\ run_id = <<>>
    /\ walk_stack = <<>>
    /\ pending = {}
    /\ cur = NoCur
    /\ converted_files = <<>>
    /\ summary = ZeroSummary
    /\ results = <<>>
    /\ interrupted = FALSE
    /\ exit_code = -1
    /\ nruns = 0
    /\ nrestores = 0
    /\ faults = 0
    /\ restore = NoRestore
    /\ tampered = FALSE
    /\ run_start = [fs |-> <<>>, dirs |-> {}, manifests |-> <<>>]
    /\ overwritten = {}
    /\ prev_run = NoRun
    /\ last_op = "none"
    /\ now = 0
    /\ issued = <<>>
    /\ mio = NoManifestIO

NextBackslash ==
    \/ \E execute \in BOOLEAN, include \in BOOLEAN :
          nruns = 0 /\ StartRun(execute, include)
    \/ ScanDir
    \/ \E f \in pending : LoopIter(f, NoFault)
    \/ CreateBackup(NoFault, TRUE)
    \/ Mkstemp(NoFault)
    \/ WriteTemp(NoFault)
    \/ Rename(NoFault)
    \/ Finish
    \/ Restore(1)

SpecBackslash == InitBackslash /\ [][NextBackslash]_vars

(***************************************************************************)
(* Run ids: generate_run_id is called at successive moments while the      *)
(* clock runs, and list_backups sorts what it returned.                    *)
(***************************************************************************)
\* The clock starts shortly before a minute ends.
ClockStart == 60 - MaxTicks

\* a second passes
Tick ==
    /\ now < ClockStart + MaxTicks
    /\ now' = now + 1
    /\ UNCHANGED <<session, issued, mio>>

\* generate_run_id(): reads the clock, draws a uuid
GenerateRunId(short_uuid) ==
    /\ Len(issued) < MaxIds
    /\ issued' = Append(issued, generate_run_id_at(now, short_uuid))
    /\ UNCHANGED <<session, now, mio>>

InitRunId ==
    /\ fs = <<>>
    /\ backup_dir = BackupOutside
    /\ dirs = {TargetRoot}
    /\ manifests = <<>>
    /\ pc = "idle"
    /\ config = NoConfig
    /\ run_id = <<>>
    /\ walk_stack = <<>>
    /\ pending = {}
    /\ cur = NoCur
    /\ converted_files = <<>>
    /\ summary = ZeroSummary
    /\ results = <<>>
    /\ interrupted = FALSE
    /\ exit_code = -1
    /\ nruns = 0
    /\ nrestores = 0
    /\ faults = 0
    /\ restore = NoRestore
    /\ tampered = FALSE
    /\ run_start = [fs |-> <<>>, dirs |-> {}, manifests |-> <<>>]
    /\ overwritten = {}
    /\ prev_run = NoRun
    /\ last_op = "none"
    /\ now = ClockStart
    /\ issued = <<>>
    /\ mio = NoManifestIO

NextRunId ==
    \/ Tick
    \/ \E short_uuid \in ShortUuids : GenerateRunId(short_uuid)

SpecRunId == InitRunId /\ [][NextRunId]_vars

=============================================================================
